---- MODULE Spec2Model ----
(***************************************************************************)
(* Result workflow (submit / confirm / resolve) and run workflow (submit   *)
(* run / review run / finalize session / upsert session) of the MatUp      *)
(* backend, over the tables of the data store.                             *)
(*                                                                         *)
(* Every handler is a sequence of store operations separated by awaits.    *)
(* Each store operation is one step operator  Step(s, r)  that maps the    *)
(* store s and the request's locals r to the next store and locals.        *)
(* Spec and SpecRuns run a handler's steps back to back (one request at a  *)
(* time); SpecConc interleaves the steps of concurrent requests.           *)
(***************************************************************************)
EXTENDS Integers, Sequences, FiniteSets, TLC

VARIABLES
    leagues,               \* the league's row (sport_type, rules)
    league_fixtures,       \* fixture id -> row (status, fixture_type, metadata)
    result_submissions,    \* sequence of rows; the row's id is its index
    result_confirmations,  \* set of vote rows
    running_sessions,      \* session id -> row
    session_runs,          \* sequence of rows of the session; a row's id is its index
    reqs,                  \* requests in flight: slot -> locals of the handler
    last,                  \* the last request served with success, and its response
    calls,                 \* number of requests served with success
    calc                   \* a read-only computation: its name, input and output

vars == <<leagues, league_fixtures, result_submissions, result_confirmations,
          running_sessions, session_runs, reqs, last, calls, calc>>

(***************************************************************************)
(* Bounds                                                                  *)
(***************************************************************************)
MaxCalls == 3         \* requests served with success in one behaviour (Spec)
MaxRunCalls == 4      \* the same, in a behaviour of SpecRuns
MaxConcCalls == 3     \* requests begun in one behaviour of SpecConc

(***************************************************************************)
(* Fixed data: one league, its members, its fixtures, one session.         *)
(***************************************************************************)
Null == "null"
Absent == "absent"
EmptyPayload == "empty"                 \* {} : Object.keys(payload).length = 0
Payloads == {"A_wins", "B_wins"}

Users == {"o", "a1", "a2", "b1", "m", "x"}

\* league_members: o owns the league, a1 a2 b1 m are plain members,
\* x is not a member.
league_members ==
    [u \in Users |->
        CASE u = "o" -> "owner"
          [] u = "x" -> Null
          [] OTHER -> "member"]

MatchFixtures == {"f1"}                 \* league_match fixture of week 1
TrialFixture == "t1"                    \* time_trial_session fixture of week 1
FixtureIds == MatchFixtures \cup {TrialFixture}
UnknownFixture == "f0"

\* league_fixture_participants: a1+a2 play b1 in the league_match fixture;
\* o and m play in none; a time_trial_session fixture has no participant rows.
league_fixture_participants ==
    [f \in FixtureIds |->
        [u \in Users |->
            IF f \in MatchFixtures
            THEN CASE u \in {"a1", "a2"} -> "A"
                   [] u = "b1" -> "B"
                   [] OTHER -> Null
            ELSE Null]]

NoMetadata ==
    [finalized_submission_id |-> 0, final_result |-> Absent, resolved_by |-> Absent,
     finalized_session_id |-> Absent, finalized_runs |-> -1,
     best_elapsed_seconds |-> -1]

NoFixture ==
    [found |-> FALSE, status |-> Null, fixture_type |-> Null, week_number |-> 0,
     metadata |-> NoMetadata]

NoSubmission ==
    [found |-> FALSE, id |-> 0, fixture_id |-> Null, submitted_by |-> Null,
     source |-> Null, status |-> Null, payload |-> EmptyPayload]

(***************************************************************************)
(* Helpers of the routes                                                   *)
(***************************************************************************)
getLeagueRole(userId) == league_members[userId]

\* (variant of isLeagueAdminRole: every caller passes)
anyRole(role) == TRUE

isLeagueAdminRole(role) == role = "owner" \/ role = "admin"

getFixture(s, fixtureId) ==
    IF fixtureId \in DOMAIN s.league_fixtures
    THEN [found |-> TRUE] @@ s.league_fixtures[fixtureId]
    ELSE NoFixture

getFixtureSide(fixtureId, userId) ==
    IF fixtureId \in FixtureIds
    THEN league_fixture_participants[fixtureId][userId]
    ELSE Null

\* (variant of selectSubmission: the row is selected by its id alone)
selectSubmissionOfAnyFixture(s, submissionId, fixtureId) ==
    IF submissionId \in 1..Len(s.result_submissions)
    THEN LET row == s.result_submissions[submissionId] IN
         [found |-> TRUE, id |-> submissionId, fixture_id |-> row.fixture_id,
          submitted_by |-> row.submitted_by, source |-> row.source,
          status |-> row.status, payload |-> row.payload]
    ELSE NoSubmission

\* .select(...).eq('id', submissionId).eq('fixture_id', fixtureId).single()
selectSubmission(s, submissionId, fixtureId) ==
    IF /\ submissionId \in 1..Len(s.result_submissions)
       /\ s.result_submissions[submissionId].fixture_id = fixtureId
    THEN LET row == s.result_submissions[submissionId] IN
         [found |-> TRUE, id |-> submissionId, fixture_id |-> row.fixture_id,
          submitted_by |-> row.submitted_by, source |-> row.source,
          status |-> row.status, payload |-> row.payload]
    ELSE NoSubmission

Out(s, r) == [store |-> s, req |-> r]

Reply(r, code) == [r EXCEPT !.pc = "done", !.status = code]

(***************************************************************************)
(* A request: the handler's inputs, its position (pc), its locals and its  *)
(* response.                                                               *)
(***************************************************************************)
NoSession ==
    [found |-> FALSE, status |-> Null, week_number |-> 0, distance_meters |-> 0]

NewReq(op, userId, fixtureId, payload, submissionId, decision) ==
    [op |-> op, userId |-> userId, fixtureId |-> fixtureId, payload |-> payload,
     submissionId |-> submissionId, decision |-> decision,
     sessionId |-> Null, runId |-> 0, elapsedSeconds |-> 0,
     distanceMeters |-> 0, deadlinePassed |-> FALSE, sessionStatus |-> Null,
     weekNumber |-> 0, existingFixture |-> Null,
     pc |-> "start",
     fixture |-> NoFixture, role |-> Null, submission |-> NoSubmission,
     confirmingSide |-> Null, finalize |-> FALSE, finalPayload |-> EmptyPayload,
     session |-> NoSession, needReview |-> FALSE, promotableRuns |-> {},
     status |-> 0, finalized |-> FALSE, disputed |-> FALSE, newId |-> 0,
     finalizedRuns |-> -1]

Idle == NewReq("idle", Null, Null, EmptyPayload, 0, Null)

(***************************************************************************)
(* POST /:id/results/submit                                                *)
(***************************************************************************)
\* (variant of submit_getFixture: the fixture's status is not read)
submit_getFixture_AnyStatus(s, r) ==
    IF r.payload = EmptyPayload THEN Out(s, Reply(r, 400))
    ELSE LET fixture == getFixture(s, r.fixtureId) IN
         IF ~fixture.found THEN Out(s, Reply(r, 404))
         ELSE LET role == getLeagueRole(r.userId) IN
              IF role = Null THEN Out(s, Reply(r, 403))
              ELSE Out(s, [r EXCEPT !.pc = "supersede", !.fixture = fixture,
                                    !.role = role])

submit_getFixture(s, r) ==
    IF r.payload = EmptyPayload THEN Out(s, Reply(r, 400))
    ELSE LET fixture == getFixture(s, r.fixtureId) IN
         IF ~fixture.found THEN Out(s, Reply(r, 404))
         ELSE IF fixture.status = "finalized" \/ fixture.status = "cancelled"
         THEN Out(s, Reply(r, 400))
         ELSE LET role == getLeagueRole(r.userId) IN
              IF role = Null THEN Out(s, Reply(r, 403))
              ELSE Out(s, [r EXCEPT !.pc = "supersede", !.fixture = fixture,
                                    !.role = role])

\* (variant of submit_supersede: the pending submissions of every user go)
submit_supersedeAnyUser(s, r) ==
    LET subs == s.result_submissions IN
    Out([s EXCEPT !.result_submissions =
            [i \in DOMAIN subs |->
                IF /\ subs[i].fixture_id = r.fixtureId
                   /\ subs[i].status = "pending"
                THEN [subs[i] EXCEPT !.status = "superseded"]
                ELSE subs[i]]],
        [r EXCEPT !.pc = "insert"])

\* update({status: 'superseded'}).eq(fixture_id).eq(submitted_by).eq(status, 'pending')
submit_supersede(s, r) ==
    LET subs == s.result_submissions IN
    Out([s EXCEPT !.result_submissions =
            [i \in DOMAIN subs |->
                IF /\ subs[i].fixture_id = r.fixtureId
                   /\ subs[i].submitted_by = r.userId
                   /\ subs[i].status = "pending"
                THEN [subs[i] EXCEPT !.status = "superseded"]
                ELSE subs[i]]],
        [r EXCEPT !.pc = "insert"])

submissionSource(role) == IF isLeagueAdminRole(role) THEN "organizer" ELSE "participant"

submit_insert(s, r) ==
    LET isOrganizerSubmission == submissionSource(r.role) = "organizer"
        row == [fixture_id |-> r.fixtureId, submitted_by |-> r.userId,
                source |-> submissionSource(r.role), payload |-> r.payload,
                status |-> IF isOrganizerSubmission THEN "accepted" ELSE "pending",
                reviewed_by |-> IF isOrganizerSubmission THEN r.userId ELSE Null]
        s2 == [s EXCEPT !.result_submissions = Append(@, row)]
        id == Len(s.result_submissions) + 1
    IN  IF isOrganizerSubmission
        THEN Out(s2, [r EXCEPT !.pc = "finalizeFixture", !.newId = id])
        ELSE IF r.fixture.status = "scheduled"
        THEN Out(s2, [r EXCEPT !.pc = "markSubmitted", !.newId = id])
        ELSE Out(s2, [Reply(r, 200) EXCEPT !.newId = id, !.finalized = FALSE])

\* (mutation of submit_finalizeFixture: final_result is not written)
submit_finalizeFixture_NoResult(s, r) ==
    Out([s EXCEPT !.league_fixtures[r.fixtureId] =
            [@ EXCEPT !.status = "finalized",
                      !.metadata = [r.fixture.metadata EXCEPT
                                       !.finalized_submission_id = r.newId]]],
        [Reply(r, 200) EXCEPT !.finalized = TRUE])

\* the organizer branch: metadata is the handler's snapshot plus the two keys
submit_finalizeFixture(s, r) ==
    Out([s EXCEPT !.league_fixtures[r.fixtureId] =
            [@ EXCEPT !.status = "finalized",
                      !.metadata = [r.fixture.metadata EXCEPT
                                       !.finalized_submission_id = r.newId,
                                       !.final_result = r.payload]]],
        [Reply(r, 200) EXCEPT !.finalized = TRUE])

submit_markSubmitted(s, r) ==
    Out([s EXCEPT !.league_fixtures[r.fixtureId].status = "submitted"],
        [Reply(r, 200) EXCEPT !.finalized = FALSE])

(***************************************************************************)
(* POST /:id/results/confirm                                               *)
(***************************************************************************)
confirm_getFixture(s, r) ==
    IF r.submissionId = 0 THEN Out(s, Reply(r, 400))
    ELSE LET fixture == getFixture(s, r.fixtureId) IN
         IF ~fixture.found THEN Out(s, Reply(r, 404))
         ELSE LET role == getLeagueRole(r.userId) IN
              IF role = Null THEN Out(s, Reply(r, 403))
              ELSE Out(s, [r EXCEPT !.pc = "selectSubmission", !.fixture = fixture,
                                    !.role = role])

confirmingSideOf(role, fixtureId, userId) ==
    IF isLeagueAdminRole(role) THEN "organizer" ELSE getFixtureSide(fixtureId, userId)

\* (variant of confirm_selectSubmission: the author may vote)
confirm_selectSubmission_OwnVote(s, r) ==
    LET submission == selectSubmission(s, r.submissionId, r.fixtureId) IN
    IF ~submission.found THEN Out(s, Reply(r, 404))
    ELSE IF submission.status # "pending" THEN Out(s, Reply(r, 400))
    ELSE LET confirmingSide == confirmingSideOf(r.role, r.fixtureId, r.userId) IN
         IF confirmingSide = Null THEN Out(s, Reply(r, 403))
         ELSE Out(s, [r EXCEPT !.pc = "insertConfirmation",
                               !.submission = submission,
                               !.confirmingSide = confirmingSide])

confirm_selectSubmission(s, r) ==
    LET submission == selectSubmission(s, r.submissionId, r.fixtureId) IN
    IF ~submission.found THEN Out(s, Reply(r, 404))
    ELSE IF submission.submitted_by = r.userId THEN Out(s, Reply(r, 400))
    ELSE IF submission.status # "pending" THEN Out(s, Reply(r, 400))
    ELSE LET confirmingSide == confirmingSideOf(r.role, r.fixtureId, r.userId) IN
         IF confirmingSide = Null THEN Out(s, Reply(r, 403))
         ELSE Out(s, [r EXCEPT !.pc = "insertConfirmation",
                               !.submission = submission,
                               !.confirmingSide = confirmingSide])

confirm_insertConfirmation(s, r) ==
    LET row == [submission_id |-> r.submissionId, fixture_id |-> r.fixtureId,
                confirmed_by |-> r.userId, confirming_side |-> r.confirmingSide,
                decision |-> r.decision]
    IN  Out([s EXCEPT !.result_confirmations = @ \cup {row}],
            [r EXCEPT !.pc = IF r.decision = "reject" THEN "rejectSubmission"
                             ELSE "selectConfirmations"])

confirm_rejectSubmission(s, r) ==
    Out([s EXCEPT !.result_submissions[r.submissionId] =
            [@ EXCEPT !.status = "rejected", !.reviewed_by = r.userId]],
        [r EXCEPT !.pc = "disputeFixture"])

confirm_disputeFixture(s, r) ==
    Out([s EXCEPT !.league_fixtures[r.fixtureId].status = "disputed"],
        [Reply(r, 200) EXCEPT !.finalized = FALSE, !.disputed = TRUE])

\* the sides that have a 'confirm' vote on the submission
confirmationSides(s, submissionId) ==
    {c.confirming_side : c \in
        {x \in s.result_confirmations :
            x.submission_id = submissionId /\ x.decision = "confirm"}}

submitterSideOf(submission, fixtureId) ==
    IF submission.source = "participant"
    THEN getFixtureSide(fixtureId, submission.submitted_by)
    ELSE Null

\* (mutation of shouldFinalize: any confirm vote finalizes)
shouldFinalizeAnySide(sides, submitterSide) ==
    sides # {}

\* (variant of shouldFinalize: an organizer's vote counts for no side)
shouldFinalizeBySidesOnly(sides, submitterSide) ==
    IF submitterSide = "A" THEN "B" \in sides
    ELSE IF submitterSide = "B" THEN "A" \in sides
    ELSE "A" \in sides /\ "B" \in sides

shouldFinalize(sides, submitterSide) ==
    IF "organizer" \in sides THEN TRUE
    ELSE IF submitterSide = "A" THEN "B" \in sides
    ELSE IF submitterSide = "B" THEN "A" \in sides
    ELSE "A" \in sides /\ "B" \in sides

confirm_selectConfirmations(s, r) ==
    LET finalize == shouldFinalize(confirmationSides(s, r.submissionId),
                                   submitterSideOf(r.submission, r.fixtureId))
    IN  Out(s, [r EXCEPT !.finalize = finalize,
                         !.pc = IF finalize THEN "acceptSubmission"
                                ELSE "markConfirmed"])

confirm_acceptSubmission(s, r) ==
    Out([s EXCEPT !.result_submissions[r.submissionId] =
            [@ EXCEPT !.status = "accepted", !.reviewed_by = r.userId]],
        [r EXCEPT !.pc = "finalizeFixture"])

confirm_finalizeFixture(s, r) ==
    Out([s EXCEPT !.league_fixtures[r.fixtureId] =
            [@ EXCEPT !.status = "finalized",
                      !.metadata = [r.fixture.metadata EXCEPT
                                       !.finalized_submission_id = r.submission.id,
                                       !.final_result = r.submission.payload]]],
        [Reply(r, 200) EXCEPT !.finalized = TRUE, !.disputed = FALSE])

\* update({status: 'confirmed'}).eq('id', fixtureId).in('status', [submitted, confirmed])
confirm_markConfirmed(s, r) ==
    Out([s EXCEPT !.league_fixtures[r.fixtureId].status =
            IF @ \in {"submitted", "confirmed"} THEN "confirmed" ELSE @],
        [Reply(r, 200) EXCEPT !.finalized = FALSE, !.disputed = FALSE])

(***************************************************************************)
(* POST /:id/results/resolve                                               *)
(***************************************************************************)
resolve_getFixture(s, r) ==
    LET fixture == getFixture(s, r.fixtureId) IN
    IF ~fixture.found THEN Out(s, Reply(r, 404))
    ELSE LET role == getLeagueRole(r.userId) IN
         IF ~isLeagueAdminRole(role) THEN Out(s, Reply(r, 403))
         ELSE IF r.submissionId # 0
         THEN Out(s, [r EXCEPT !.pc = "selectSubmission", !.fixture = fixture,
                               !.role = role])
         ELSE IF r.payload = EmptyPayload THEN Out(s, Reply(r, 400))
         ELSE Out(s, [r EXCEPT !.pc = "insertSubmission", !.fixture = fixture,
                               !.role = role, !.finalPayload = r.payload])

resolve_selectSubmission(s, r) ==
    LET submission == selectSubmission(s, r.submissionId, r.fixtureId) IN
    IF ~submission.found THEN Out(s, Reply(r, 404))
    ELSE Out(s, [r EXCEPT !.pc = "acceptSubmission", !.submission = submission,
                          !.finalPayload = submission.payload,
                          !.newId = submission.id])

resolve_acceptSubmission(s, r) ==
    Out([s EXCEPT !.result_submissions[r.submissionId] =
            [@ EXCEPT !.status = "accepted", !.reviewed_by = r.userId]],
        [r EXCEPT !.pc = "supersedeOthers"])

resolve_insertSubmission(s, r) ==
    LET row == [fixture_id |-> r.fixtureId, submitted_by |-> r.userId,
                source |-> "organizer", payload |-> r.payload,
                status |-> "accepted", reviewed_by |-> r.userId]
    IN  Out([s EXCEPT !.result_submissions = Append(@, row)],
            [r EXCEPT !.pc = "supersedeOthers",
                      !.newId = Len(s.result_submissions) + 1])

\* update({status: 'superseded', reviewed_by}).eq(fixture_id).neq(id, finalized)
\*   .in('status', ['pending', 'rejected'])
resolve_supersedeOthers(s, r) ==
    LET subs == s.result_submissions IN
    Out([s EXCEPT !.result_submissions =
            [i \in DOMAIN subs |->
                IF /\ subs[i].fixture_id = r.fixtureId
                   /\ i # r.newId
                   /\ subs[i].status \in {"pending", "rejected"}
                THEN [subs[i] EXCEPT !.status = "superseded",
                                     !.reviewed_by = r.userId]
                ELSE subs[i]]],
        [r EXCEPT !.pc = "finalizeFixture"])

resolve_finalizeFixture(s, r) ==
    Out([s EXCEPT !.league_fixtures[r.fixtureId] =
            [@ EXCEPT !.status = "finalized",
                      !.metadata = [r.fixture.metadata EXCEPT
                                       !.finalized_submission_id = r.newId,
                                       !.final_result = r.finalPayload,
                                       !.resolved_by = r.userId]]],
        [Reply(r, 200) EXCEPT !.finalized = TRUE])

(***************************************************************************)
(* Run workflow.  One running session (week 1) and its paired              *)
(* time_trial_session fixture; a run's id is its user's id.                *)
(***************************************************************************)
SessionOfWeek(week) ==
    CASE week = 1 -> "s1"
      [] week = 2 -> "s2"
      [] week = 3 -> "s3"
      [] OTHER -> "s0"

getSession(s, sessionId) ==
    IF sessionId \in DOMAIN s.running_sessions
    THEN [found |-> TRUE] @@ s.running_sessions[sessionId]
    ELSE NoSession

\* getNestedBoolean(rules, ['submissions', 'require_organizer_approval']) === true
requiresOrganizerApproval(s) == s.leagues.require_organizer_approval = TRUE

\* the league's time_trial_session fixtures of a week
TrialFixturesOfWeek(s, week) ==
    {f \in DOMAIN s.league_fixtures :
        /\ s.league_fixtures[f].week_number = week
        /\ s.league_fixtures[f].fixture_type = "time_trial_session"}

RunReq(op, userId, sessionId) ==
    [NewReq(op, userId, Null, EmptyPayload, 0, Null) EXCEPT !.sessionId = sessionId]

(***************************************************************************)
(* POST /:id/runs/submit                                                   *)
(***************************************************************************)
submitRun_getSession(s, r) ==
    LET session == getSession(s, r.sessionId) IN
    IF ~session.found THEN Out(s, Reply(r, 404))
    ELSE IF getLeagueRole(r.userId) = Null THEN Out(s, Reply(r, 403))
    ELSE IF session.status = "finalized" \/ session.status = "closed"
    THEN Out(s, Reply(r, 400))
    ELSE IF r.deadlinePassed THEN Out(s, Reply(r, 400))
    ELSE IF r.elapsedSeconds <= 0 THEN Out(s, Reply(r, 400))
    ELSE LET distanceMeters == IF r.distanceMeters # 0 THEN r.distanceMeters
                               ELSE session.distance_meters
         IN  IF distanceMeters <= 0 THEN Out(s, Reply(r, 400))
             ELSE Out(s, [r EXCEPT !.pc = "upsertRun", !.session = session,
                                   !.distanceMeters = distanceMeters,
                                   !.needReview = requiresOrganizerApproval(s)])

runStatus(needReview) == IF needReview THEN "submitted" ELSE "approved"

newRun(r) ==
    [user_id |-> r.userId,
     status |-> runStatus(r.needReview),
     elapsed_seconds |-> r.elapsedSeconds,
     distance_meters |-> r.distanceMeters,
     reviewed_by |-> Null]

\* (variant of submitRun_upsertRun: a plain insert, no conflict target)
submitRun_insertRun(s, r) ==
    Out([s EXCEPT !.session_runs = Append(s.session_runs, newRun(r))],
        [r EXCEPT !.runId = Len(s.session_runs) + 1,
                  !.pc = IF r.session.status = "scheduled" THEN "openSession"
                         ELSE "markFixtureSubmitted"])

\* upsert(..., {onConflict: 'session_id,user_id'}): the row of the same session
\* and user, if there is one, takes the new values and keeps its id
submitRun_upsertRun(s, r) ==
    LET runs == s.session_runs
        conflict == {i \in DOMAIN runs : runs[i].user_id = r.userId}
    IN  Out([s EXCEPT !.session_runs =
                IF conflict = {} THEN Append(runs, newRun(r))
                ELSE [i \in DOMAIN runs |->
                        IF i \in conflict THEN newRun(r) ELSE runs[i]]],
            [r EXCEPT !.runId = IF conflict = {} THEN Len(runs) + 1
                                ELSE CHOOSE i \in conflict : TRUE,
                      !.pc = IF r.session.status = "scheduled" THEN "openSession"
                             ELSE "markFixtureSubmitted"])

submitRun_openSession(s, r) ==
    Out([s EXCEPT !.running_sessions[r.sessionId].status = "open"],
        [r EXCEPT !.pc = "markFixtureSubmitted"])

\* update({status: 'submitted'}).eq(week_number).eq(fixture_type, time_trial_session)
\*   .in('status', ['scheduled', 'confirmed'])
submitRun_markFixtureSubmitted(s, r) ==
    LET fx == s.league_fixtures IN
    Out([s EXCEPT !.league_fixtures =
            [f \in DOMAIN fx |->
                IF /\ f \in TrialFixturesOfWeek(s, r.session.week_number)
                   /\ fx[f].status \in {"scheduled", "confirmed"}
                THEN [fx[f] EXCEPT !.status = "submitted"]
                ELSE fx[f]]],
        Reply(r, 200))

(***************************************************************************)
(* POST /:id/runs/:runId/review                                            *)
(***************************************************************************)
reviewRun_getSession(s, r) ==
    LET session == getSession(s, r.sessionId) IN
    IF ~session.found THEN Out(s, Reply(r, 404))
    ELSE IF ~isLeagueAdminRole(getLeagueRole(r.userId)) THEN Out(s, Reply(r, 403))
    ELSE Out(s, [r EXCEPT !.pc = "selectRun", !.session = session])

reviewRun_selectRun(s, r) ==
    IF r.runId \notin DOMAIN s.session_runs THEN Out(s, Reply(r, 404))
    ELSE Out(s, [r EXCEPT !.pc = "updateRun"])

nextStatus(decision) == IF decision = "approve" THEN "approved" ELSE "rejected"

reviewRun_updateRun(s, r) ==
    Out([s EXCEPT !.session_runs[r.runId] =
            [@ EXCEPT !.status = nextStatus(r.decision), !.reviewed_by = r.userId]],
        Reply(r, 200))

(***************************************************************************)
(* POST /:id/finalize                                                      *)
(***************************************************************************)
finalizeSession_getSession(s, r) ==
    LET session == getSession(s, r.sessionId) IN
    IF ~session.found THEN Out(s, Reply(r, 404))
    ELSE IF ~isLeagueAdminRole(getLeagueRole(r.userId)) THEN Out(s, Reply(r, 403))
    ELSE Out(s, [r EXCEPT !.pc = "selectPromotable", !.session = session,
                          !.needReview = requiresOrganizerApproval(s)])

\* (mutation of promotableStatuses: the approval rule is ignored)
promotableStatusesIgnoringRule(needReview) == {"approved", "submitted"}

\* (mutation of promotableStatuses: finalized runs are selected again)
promotableStatusesWithFinalized(needReview) ==
    IF needReview THEN {"approved", "finalized"}
    ELSE {"approved", "submitted", "finalized"}

promotableStatuses(needReview) ==
    IF needReview THEN {"approved"} ELSE {"approved", "submitted"}

\* select('id, elapsed_seconds').eq(session_id).in('status', promotableStatuses)
finalizeSession_selectPromotable(s, r) ==
    LET promotableRuns ==
            {[id |-> u, elapsed_seconds |-> s.session_runs[u].elapsed_seconds] :
                u \in {v \in DOMAIN s.session_runs :
                         s.session_runs[v].status \in promotableStatuses(r.needReview)}}
    IN  Out(s, [r EXCEPT !.promotableRuns = promotableRuns,
                         !.finalizedRuns = Cardinality(promotableRuns),
                         !.pc = IF promotableRuns # {} THEN "promoteRuns"
                                ELSE "finalizeSession"])

\* update({status: 'finalized', reviewed_by}).in('id', runIds)
finalizeSession_promoteRuns(s, r) ==
    LET runIds == {run.id : run \in r.promotableRuns}
        runs == s.session_runs
    IN  Out([s EXCEPT !.session_runs =
                [u \in DOMAIN runs |->
                    IF u \in runIds
                    THEN [runs[u] EXCEPT !.status = "finalized",
                                         !.reviewed_by = r.userId]
                    ELSE runs[u]]],
            [r EXCEPT !.pc = "finalizeSession"])

finalizeSession_finalizeSession(s, r) ==
    Out([s EXCEPT !.running_sessions[r.sessionId].status = "finalized"],
        [r EXCEPT !.pc = "finalizeFixture"])

\* reduce over promotableRuns: the least elapsed_seconds, null (0) when none
bestElapsedSeconds(promotableRuns) ==
    IF promotableRuns = {} THEN 0
    ELSE CHOOSE e \in {run.elapsed_seconds : run \in promotableRuns} :
            \A run \in promotableRuns : e <= run.elapsed_seconds

\* the fixture's metadata is replaced, not merged
finalizeSession_finalizeFixture(s, r) ==
    LET fx == s.league_fixtures IN
    Out([s EXCEPT !.league_fixtures =
            [f \in DOMAIN fx |->
                IF f \in TrialFixturesOfWeek(s, r.session.week_number)
                THEN [fx[f] EXCEPT
                        !.status = "finalized",
                        !.metadata =
                            [NoMetadata EXCEPT
                                !.finalized_session_id = r.sessionId,
                                !.finalized_runs = r.finalizedRuns,
                                !.best_elapsed_seconds =
                                    bestElapsedSeconds(r.promotableRuns)]]
                ELSE fx[f]]],
        Reply(r, 200))

(***************************************************************************)
(* POST /:id/sessions  (create or update the session of a week)            *)
(***************************************************************************)
upsertSession_start(s, r) ==
    IF r.weekNumber < 1 THEN Out(s, Reply(r, 400))
    ELSE IF ~isLeagueAdminRole(getLeagueRole(r.userId)) THEN Out(s, Reply(r, 403))
    ELSE IF s.leagues.sport_type # "running" THEN Out(s, Reply(r, 400))
    ELSE Out(s, [r EXCEPT !.pc = "upsertSession"])

\* upsert(..., {onConflict: 'league_id,week_number'})
upsertSession_upsertSession(s, r) ==
    LET row == [status |-> r.sessionStatus, week_number |-> r.weekNumber,
                distance_meters |-> r.distanceMeters]
        id == SessionOfWeek(r.weekNumber)
        rs == s.running_sessions
    IN  Out([s EXCEPT !.running_sessions =
                [x \in DOMAIN rs \cup {id} |-> IF x = id THEN row ELSE rs[x]]],
            [r EXCEPT !.sessionId = id, !.pc = "selectFixture"])

upsertSession_selectFixture(s, r) ==
    LET found == TrialFixturesOfWeek(s, r.weekNumber) IN
    IF found # {}
    THEN Out(s, [r EXCEPT !.existingFixture = CHOOSE f \in found : TRUE,
                          !.pc = "updateFixture"])
    ELSE Out(s, [r EXCEPT !.pc = "insertFixture"])

fixtureStatusFor(status) == IF status = "finalized" THEN "finalized" ELSE "scheduled"

upsertSession_updateFixture(s, r) ==
    Out([s EXCEPT !.league_fixtures[r.existingFixture].status =
            fixtureStatusFor(r.sessionStatus)],
        Reply(r, 200))

upsertSession_insertFixture(s, r) ==
    LET row == [status |-> fixtureStatusFor(r.sessionStatus),
                fixture_type |-> "time_trial_session",
                week_number |-> r.weekNumber, metadata |-> NoMetadata]
        fx == s.league_fixtures
    IN  Out([s EXCEPT !.league_fixtures =
                [f \in DOMAIN fx \cup {TrialFixture} |->
                    IF f = TrialFixture THEN row ELSE fx[f]]],
            Reply(r, 200))

(***************************************************************************)
(* Dispatch: the next store operation of a request, and a whole handler.   *)
(***************************************************************************)
Step(s, r) ==
    CASE r.op = "submit" /\ r.pc = "start" -> submit_getFixture(s, r)
      [] r.op = "submit" /\ r.pc = "supersede" -> submit_supersede(s, r)
      [] r.op = "submit" /\ r.pc = "insert" -> submit_insert(s, r)
      [] r.op = "submit" /\ r.pc = "finalizeFixture" -> submit_finalizeFixture(s, r)
      [] r.op = "submit" /\ r.pc = "markSubmitted" -> submit_markSubmitted(s, r)
      [] r.op = "confirm" /\ r.pc = "start" -> confirm_getFixture(s, r)
      [] r.op = "confirm" /\ r.pc = "selectSubmission" -> confirm_selectSubmission(s, r)
      [] r.op = "confirm" /\ r.pc = "insertConfirmation" -> confirm_insertConfirmation(s, r)
      [] r.op = "confirm" /\ r.pc = "rejectSubmission" -> confirm_rejectSubmission(s, r)
      [] r.op = "confirm" /\ r.pc = "disputeFixture" -> confirm_disputeFixture(s, r)
      [] r.op = "confirm" /\ r.pc = "selectConfirmations" -> confirm_selectConfirmations(s, r)
      [] r.op = "confirm" /\ r.pc = "acceptSubmission" -> confirm_acceptSubmission(s, r)
      [] r.op = "confirm" /\ r.pc = "finalizeFixture" -> confirm_finalizeFixture(s, r)
      [] r.op = "confirm" /\ r.pc = "markConfirmed" -> confirm_markConfirmed(s, r)
      [] r.op = "resolve" /\ r.pc = "start" -> resolve_getFixture(s, r)
      [] r.op = "resolve" /\ r.pc = "selectSubmission" -> resolve_selectSubmission(s, r)
      [] r.op = "resolve" /\ r.pc = "acceptSubmission" -> resolve_acceptSubmission(s, r)
      [] r.op = "resolve" /\ r.pc = "insertSubmission" -> resolve_insertSubmission(s, r)
      [] r.op = "resolve" /\ r.pc = "supersedeOthers" -> resolve_supersedeOthers(s, r)
      [] r.op = "resolve" /\ r.pc = "finalizeFixture" -> resolve_finalizeFixture(s, r)
      [] r.op = "submitRun" /\ r.pc = "start" -> submitRun_getSession(s, r)
      [] r.op = "submitRun" /\ r.pc = "upsertRun" -> submitRun_upsertRun(s, r)
      [] r.op = "submitRun" /\ r.pc = "openSession" -> submitRun_openSession(s, r)
      [] r.op = "submitRun" /\ r.pc = "markFixtureSubmitted" ->
            submitRun_markFixtureSubmitted(s, r)
      [] r.op = "reviewRun" /\ r.pc = "start" -> reviewRun_getSession(s, r)
      [] r.op = "reviewRun" /\ r.pc = "selectRun" -> reviewRun_selectRun(s, r)
      [] r.op = "reviewRun" /\ r.pc = "updateRun" -> reviewRun_updateRun(s, r)
      [] r.op = "finalizeSession" /\ r.pc = "start" -> finalizeSession_getSession(s, r)
      [] r.op = "finalizeSession" /\ r.pc = "selectPromotable" ->
            finalizeSession_selectPromotable(s, r)
      [] r.op = "finalizeSession" /\ r.pc = "promoteRuns" ->
            finalizeSession_promoteRuns(s, r)
      [] r.op = "finalizeSession" /\ r.pc = "finalizeSession" ->
            finalizeSession_finalizeSession(s, r)
      [] r.op = "finalizeSession" /\ r.pc = "finalizeFixture" ->
            finalizeSession_finalizeFixture(s, r)
      [] r.op = "upsertSession" /\ r.pc = "start" -> upsertSession_start(s, r)
      [] r.op = "upsertSession" /\ r.pc = "upsertSession" ->
            upsertSession_upsertSession(s, r)
      [] r.op = "upsertSession" /\ r.pc = "selectFixture" ->
            upsertSession_selectFixture(s, r)
      [] r.op = "upsertSession" /\ r.pc = "updateFixture" ->
            upsertSession_updateFixture(s, r)
      [] r.op = "upsertSession" /\ r.pc = "insertFixture" ->
            upsertSession_insertFixture(s, r)

RECURSIVE RunAll(_, _)
RunAll(s, r) ==
    IF r.pc = "done" THEN Out(s, r)
    ELSE LET o == Step(s, r) IN RunAll(o.store, o.req)

Store ==
    [leagues |-> leagues,
     league_fixtures |-> league_fixtures,
     result_submissions |-> result_submissions,
     result_confirmations |-> result_confirmations,
     running_sessions |-> running_sessions,
     session_runs |-> session_runs]

Commit(s) ==
    /\ leagues' = s.leagues
    /\ league_fixtures' = s.league_fixtures
    /\ result_submissions' = s.result_submissions
    /\ result_confirmations' = s.result_confirmations
    /\ running_sessions' = s.running_sessions
    /\ session_runs' = s.session_runs

\* what the caller of a request gets back, with the request's inputs
Response(r) ==
    [op |-> r.op, userId |-> r.userId, fixtureId |-> r.fixtureId,
     submissionId |-> IF r.op = "confirm" THEN r.submissionId ELSE r.newId,
     sessionId |-> r.sessionId, runId |-> r.runId,
     status |-> r.status, finalized |-> r.finalized, disputed |-> r.disputed,
     finalizedRuns |-> r.finalizedRuns, requiresReview |-> r.needReview]

NoResponse ==
    [op |-> "none", userId |-> Null, fixtureId |-> Null, submissionId |-> 0,
     sessionId |-> Null, runId |-> 0,
     status |-> 0, finalized |-> FALSE, disputed |-> FALSE,
     finalizedRuns |-> -1, requiresReview |-> FALSE]

\* One request served from start to response, no other request in between.
\* A rejected request (4xx) has written nothing: the step is a stuttering step.
\* No request is served once the bound on served requests is reached.
Call(r, limit) ==
    /\ calls < limit
    /\ LET o == RunAll(Store, r) IN
       IF o.req.status = 200
       THEN /\ Commit(o.store)
            /\ last' = Response(o.req)
            /\ calls' = calls + 1
            /\ UNCHANGED <<reqs, calc>>
       ELSE /\ o.store = Store
            /\ UNCHANGED vars

\* no read-only computation has been asked for
NoCalc == [fn |-> "none"]

ScheduledFixture(type, week) ==
    [status |-> "scheduled", fixture_type |-> type, week_number |-> week,
     metadata |-> NoMetadata]

Init ==
    /\ leagues = [sport_type |-> "tennis", require_organizer_approval |-> FALSE]
    /\ league_fixtures =
          [f \in MatchFixtures |-> ScheduledFixture("league_match", 1)]
    /\ result_submissions = <<>>
    /\ result_confirmations = {}
    /\ running_sessions = <<>>
    /\ session_runs = <<>>
    /\ reqs = <<>>
    /\ last = NoResponse
    /\ calls = 0
    /\ calc = NoCalc

\* ids a caller may name: none (0), every existing row, one row that does not exist
SubmissionIds == 0..(Len(result_submissions) + 1)

submitResult ==
    \E u \in Users, f \in MatchFixtures, p \in Payloads \cup {EmptyPayload} :
        /\ Call(NewReq("submit", u, f, p, 0, Null), MaxCalls)

confirmResult ==
    \E u \in Users, f \in MatchFixtures, id \in SubmissionIds,
       d \in {"confirm", "reject"} :
        /\ Call(NewReq("confirm", u, f, EmptyPayload, id, d), MaxCalls)

\* a submission id makes the handler ignore the payload
resolveResult ==
    \E u \in Users, f \in MatchFixtures :
        \/ \E id \in SubmissionIds \ {0} :
              /\ Call(NewReq("resolve", u, f, EmptyPayload, id, Null), MaxCalls)
        \/ \E p \in Payloads \cup {EmptyPayload} :
              /\ Call(NewReq("resolve", u, f, p, 0, Null), MaxCalls)

Next == submitResult \/ confirmResult \/ resolveResult

Spec == Init /\ [][Next]_vars

(***************************************************************************)
(* SpecRuns: a running league.  Either its schedule has been generated     *)
(* (session s1 and fixture t1 of week 1, both scheduled) or it has none.   *)
(***************************************************************************)
RunUsers == {"a1", "a2", "x"}           \* the users who submit runs
ElapsedValues == {0, 1, 2}              \* 0: not a positive number
DistanceInputs == {0, 1}                \* 0: no distanceMeters in the body
SessionDistances == {0, 2}              \* 0: distance_meters is null
SessionStatuses == {"scheduled", "open", "closed", "finalized"}

InitRuns ==
    /\ leagues \in [sport_type : {"running"}, require_organizer_approval : BOOLEAN]
    /\ \/ /\ league_fixtures =
                [f \in {TrialFixture} |-> ScheduledFixture("time_trial_session", 1)]
          /\ running_sessions =
                [x \in {"s1"} |->
                    [status |-> "scheduled", week_number |-> 1, distance_meters |-> 0]]
       \/ /\ league_fixtures = <<>>
          /\ running_sessions = <<>>
    /\ result_submissions = <<>>
    /\ result_confirmations = {}
    /\ session_runs = <<>>
    /\ reqs = <<>>
    /\ last = NoResponse
    /\ calls = 0
    /\ calc = NoCalc

submitRun ==
    \E u \in RunUsers, e \in ElapsedValues, d \in DistanceInputs, late \in BOOLEAN :
        /\ Call([RunReq("submitRun", u, "s1") EXCEPT
                !.elapsedSeconds = e, !.distanceMeters = d, !.deadlinePassed = late], MaxRunCalls)

\* ids a reviewer may name: every existing run, one run that does not exist
RunIds == 1..(Len(session_runs) + 1)

reviewRun ==
    \E u \in Users, run \in RunIds, d \in {"approve", "reject"} :
        /\ Call([RunReq("reviewRun", u, "s1") EXCEPT !.runId = run, !.decision = d], MaxRunCalls)

finalizeSession ==
    \E u \in Users :
        /\ Call(RunReq("finalizeSession", u, "s1"), MaxRunCalls)

upsertSession ==
    \E u \in Users, w \in {0, 1}, st \in SessionStatuses, d \in SessionDistances :
        /\ Call([RunReq("upsertSession", u, Null) EXCEPT
                !.weekNumber = w, !.sessionStatus = st, !.distanceMeters = d], MaxRunCalls)

NextRuns == submitRun \/ reviewRun \/ finalizeSession \/ upsertSession

SpecRuns == InitRuns /\ [][NextRuns]_vars

(***************************************************************************)
(* SpecConc: the result workflow with requests in flight together.  Each   *)
(* step of a handler is one store operation; between two steps of one      *)
(* request any step of the other may happen (the handlers hold no lock     *)
(* and use no transaction).                                                *)
(***************************************************************************)
Slots == {1, 2}
ConcUsers == {"o", "a1", "b1"}

InitConc ==
    /\ leagues = [sport_type |-> "tennis", require_organizer_approval |-> FALSE]
    /\ league_fixtures =
          [f \in MatchFixtures |-> ScheduledFixture("league_match", 1)]
    /\ result_submissions = <<>>
    /\ result_confirmations = {}
    /\ running_sessions = <<>>
    /\ session_runs = <<>>
    /\ reqs = [i \in Slots |-> Idle]
    /\ last = NoResponse
    /\ calls = 0
    /\ calc = NoCalc

\* a request arrives
Begin(i, r) ==
    /\ reqs[i] = Idle
    /\ calls < MaxConcCalls
    /\ reqs' = [reqs EXCEPT ![i] = r]
    /\ calls' = calls + 1
    /\ UNCHANGED <<leagues, league_fixtures, result_submissions,
                   result_confirmations, running_sessions, session_runs, last,
                   calc>>

beginSubmit ==
    \E i \in Slots, u \in ConcUsers, f \in MatchFixtures, p \in Payloads :
        /\ Begin(i, NewReq("submit", u, f, p, 0, Null))

beginConfirm ==
    \E i \in Slots, u \in ConcUsers, f \in MatchFixtures,
       id \in SubmissionIds \ {0}, d \in {"confirm", "reject"} :
        /\ Begin(i, NewReq("confirm", u, f, EmptyPayload, id, d))

beginResolve ==
    \E i \in Slots, u \in ConcUsers, f \in MatchFixtures :
        \/ \E id \in SubmissionIds \ {0} :
              /\ Begin(i, NewReq("resolve", u, f, EmptyPayload, id, Null))
        \/ \E p \in Payloads :
              /\ Begin(i, NewReq("resolve", u, f, p, 0, Null))

\* the request in slot i performs its next store operation; with the last
\* one it responds and leaves
stepRequest ==
    \E i \in Slots :
        /\ reqs[i] # Idle
        /\ LET o == Step(Store, reqs[i]) IN
            /\ Commit(o.store)
            /\ IF o.req.pc = "done"
               THEN /\ reqs' = [reqs EXCEPT ![i] = Idle]
                    /\ last' = Response(o.req)
               ELSE /\ reqs' = [reqs EXCEPT ![i] = o.req]
                    /\ UNCHANGED last
        /\ UNCHANGED <<calls, calc>>

NextConc == beginSubmit \/ beginConfirm \/ beginResolve \/ stepRequest

SpecConc == InitConc /\ [][NextConc]_vars

(***************************************************************************)
(* Standings (standings.service).  A match is [id, status, week_number,    *)
(* winner]; a participant is [match_id, user_id, team, time_seconds,       *)
(* distance_meters]; members is the sequence of the league's user ids.     *)
(* score, points and set_scores are read only by formats not modelled      *)
(* here (team_vs_team, individual_points).                                 *)
(***************************************************************************)
NoTime == -1       \* time_seconds: null

Range(seq) == {seq[i] : i \in DOMAIN seq}

RECURSIVE SumSeq(_)
SumSeq(seq) == IF seq = <<>> THEN 0 ELSE Head(seq) + SumSeq(Tail(seq))

RECURSIVE Concat(_)
Concat(seqs) == IF seqs = <<>> THEN <<>> ELSE Head(seqs) \o Concat(Tail(seqs))

\* the keys of an object in insertion order: first occurrences only
RECURSIVE FirstOccurrences(_)
FirstOccurrences(seq) ==
    IF seq = <<>> THEN <<>>
    ELSE LET init == FirstOccurrences(SubSeq(seq, 1, Len(seq) - 1))
             x == seq[Len(seq)]
         IN  IF x \in Range(init) THEN init ELSE Append(init, x)

completedMatches(matches) == SelectSeq(matches, LAMBDA m : m.status = "completed")

relevantParticipants(matches, participants) ==
    SelectSeq(participants,
              LAMBDA p : p.match_id \in {m.id : m \in Range(completedMatches(matches))})

matchParticipants(matches, participants, match) ==
    SelectSeq(relevantParticipants(matches, participants),
              LAMBDA p : p.match_id = match.id)

teamOf(matches, participants, match, team) ==
    SelectSeq(matchParticipants(matches, participants, match),
              LAMBDA p : p.team = team)

\* if (!match.winner) continue
decidedMatches(matches) ==
    SelectSeq(completedMatches(matches), LAMBDA m : m.winner # Null)

\* (variant of winnersOf: side A is credited whatever the winner)
winnersAlwaysA(matches, participants, match) ==
    teamOf(matches, participants, match, "A")

winnersOf(matches, participants, match) ==
    IF match.winner = "A" THEN teamOf(matches, participants, match, "A")
    ELSE teamOf(matches, participants, match, "B")

losersOf(matches, participants, match) ==
    IF match.winner = "A" THEN teamOf(matches, participants, match, "B")
    ELSE teamOf(matches, participants, match, "A")

userIds(rows) == [i \in DOMAIN rows |-> rows[i].user_id]

CountUser(rows, u) == Len(SelectSeq(rows, LAMBDA p : p.user_id = u))

NoStanding(u) ==
    [user_id |-> u, rank |-> 0, played |-> 0, wins |-> 0, draws |-> 0,
     losses |-> 0, points |-> 0, goalDifference |-> 0, totalTime |-> 0,
     totalPoints |-> 0]

\* the comparators handed to Array.sort: a goes strictly before b
Before(order, a, b) ==
    CASE order = "wins" ->
            IF b.wins # a.wins THEN b.wins < a.wins
            ELSE IF a.losses # b.losses THEN a.losses < b.losses
            ELSE b.played < a.played
      [] order = "time" ->
            IF a.played = 0 /\ b.played = 0 THEN FALSE
            ELSE IF a.played = 0 THEN FALSE
            ELSE IF b.played = 0 THEN TRUE
            ELSE a.totalTime < b.totalTime
      [] order = "progress" ->
            IF b.points # a.points THEN b.points < a.points
            ELSE IF b.wins # a.wins THEN b.wins < a.wins
            ELSE IF b.played # a.played THEN b.played < a.played
            ELSE a.totalTime < b.totalTime
      [] order = "team" ->
            IF b.wins # a.wins THEN b.wins < a.wins
            ELSE IF a.losses # b.losses THEN a.losses < b.losses
            ELSE b.winPct < a.winPct

\* Array.prototype.sort is stable: x goes before the first element it is
\* strictly before
RECURSIVE InsertSorted(_, _, _)
InsertSorted(order, x, sorted) ==
    IF sorted = <<>> THEN <<x>>
    ELSE IF Before(order, x, Head(sorted)) THEN <<x>> \o sorted
    ELSE <<Head(sorted)>> \o InsertSorted(order, x, Tail(sorted))

RECURSIVE StableSort(_, _)
StableSort(order, seq) ==
    IF seq = <<>> THEN <<>>
    ELSE InsertSorted(order, seq[Len(seq)],
                      StableSort(order, SubSeq(seq, 1, Len(seq) - 1)))

\* standings.forEach((standing, index) => standing.rank = index + 1)
withRanks(standings) == [i \in DOMAIN standings |-> [standings[i] EXCEPT !.rank = i]]

\* scoringFormat singles, doubles: the individual view
winLossStandings(matches, participants, members) ==
    LET ms == decidedMatches(matches)
        winners(i) == winnersOf(matches, participants, ms[i])
        losers(i) == losersOf(matches, participants, ms[i])
        keys == FirstOccurrences(
                    members \o Concat([i \in DOMAIN ms |->
                                          userIds(winners(i)) \o userIds(losers(i))]))
        wins(u) == SumSeq([i \in DOMAIN ms |-> CountUser(winners(i), u)])
        losses(u) == SumSeq([i \in DOMAIN ms |-> CountUser(losers(i), u)])
    IN  withRanks(StableSort("wins",
            [k \in DOMAIN keys |->
                [NoStanding(keys[k]) EXCEPT
                    !.played = wins(keys[k]) + losses(keys[k]),
                    !.wins = wins(keys[k]),
                    !.losses = losses(keys[k]),
                    !.points = wins(keys[k])]]))

\* (variant of timedParticipants: rows of matches not completed are kept)
timedParticipantsOfAll(matches, participants) ==
    SelectSeq(participants, LAMBDA p : p.time_seconds # NoTime)

\* if (participant.time_seconds == null) continue
timedParticipants(matches, participants) ==
    SelectSeq(relevantParticipants(matches, participants),
              LAMBDA p : p.time_seconds # NoTime)

totalTimeOf(rows, u) ==
    SumSeq(LET mine == SelectSeq(rows, LAMBDA p : p.user_id = u)
           IN  [i \in DOMAIN mine |-> mine[i].time_seconds])

\* scoringFormat individual_time, runningComparisonMode absolute_performance
absoluteTimeStandings(matches, participants, members) ==
    LET rows == timedParticipants(matches, participants)
        keys == FirstOccurrences(members \o userIds(rows))
    IN  withRanks(StableSort("time",
            [k \in DOMAIN keys |->
                [NoStanding(keys[k]) EXCEPT
                    !.played = CountUser(rows, keys[k]),
                    !.points = CountUser(rows, keys[k]),
                    !.totalTime = totalTimeOf(rows, keys[k])]]))

\* scoringFormat individual_time, runningComparisonMode personal_progress.
\* The league of this model has one session, so a member has at most one
\* run and the loop over consecutive runs compares nothing: improvementCount,
\* regressionCount and normalizedImprovement are 0.  A run whose pace is not
\* positive (time_seconds = 0) is skipped.
progressStandings(matches, participants, members) ==
    LET rows == SelectSeq(timedParticipants(matches, participants),
                          LAMBDA p : p.time_seconds > 0)
    IN  withRanks(StableSort("progress",
            [k \in DOMAIN members |->
                [NoStanding(members[k]) EXCEPT
                    !.played = CountUser(rows, members[k]),
                    !.totalTime = totalTimeOf(rows, members[k])]]))

calculateStandings(scoringFormat, matches, participants, members, runningComparisonMode) ==
    CASE scoringFormat = "individual_time" ->
            IF runningComparisonMode = "personal_progress"
            THEN progressStandings(matches, participants, members)
            ELSE absoluteTimeStandings(matches, participants, members)
      [] scoringFormat \in {"singles", "doubles"} ->
            winLossStandings(matches, participants, members)
      [] OTHER -> [k \in DOMAIN members |-> [NoStanding(members[k]) EXCEPT !.rank = k]]

\* the user ids of the model in the order String's default sort gives them
SortedUserIds == <<"a1", "a2", "b1", "m", "o", "x">>

IdIndex(u) == CHOOSE i \in DOMAIN SortedUserIds : SortedUserIds[i] = u

RECURSIVE InsertId(_, _)
InsertId(u, sorted) ==
    IF sorted = <<>> THEN <<u>>
    ELSE IF IdIndex(u) < IdIndex(Head(sorted)) THEN <<u>> \o sorted
    ELSE <<Head(sorted)>> \o InsertId(u, Tail(sorted))

\* ids.sort()
RECURSIVE sortIds(_)
sortIds(ids) ==
    IF ids = <<>> THEN <<>>
    ELSE InsertId(ids[Len(ids)], sortIds(SubSeq(ids, 1, Len(ids) - 1)))

\* ids.join('+')
RECURSIVE joinIds(_)
joinIds(ids) ==
    IF ids = <<>> THEN ""
    ELSE IF Len(ids) = 1 THEN ids[1]
    ELSE ids[1] \o "+" \o joinIds(Tail(ids))

sideOf(matches, participants, match, team) ==
    sortIds(userIds(teamOf(matches, participants, match, team)))

\* if (sideA.length < 2 || sideB.length < 2) continue
teamMatches(matches, participants) ==
    SelectSeq(decidedMatches(matches),
              LAMBDA m : /\ Len(sideOf(matches, participants, m, "A")) >= 2
                         /\ Len(sideOf(matches, participants, m, "B")) >= 2)

\* Math.round((wins / played) * 100): the nearest integer, a half goes up
winPctOf(wins, played) ==
    IF played > 0 THEN (200 * wins + played) \div (2 * played) ELSE 0

calculateTeamStandings(matches, participants, members) ==
    LET ms == teamMatches(matches, participants)
        sideA(i) == sideOf(matches, participants, ms[i], "A")
        sideB(i) == sideOf(matches, participants, ms[i], "B")
        sides == FirstOccurrences(Concat([i \in DOMAIN ms |-> <<sideA(i), sideB(i)>>]))
        playedOf(side) ==
            Cardinality({i \in DOMAIN ms : sideA(i) = side})
                + Cardinality({i \in DOMAIN ms : sideB(i) = side})
        winsOf(side) ==
            Cardinality({i \in DOMAIN ms : sideA(i) = side /\ ms[i].winner = "A"})
                + Cardinality({i \in DOMAIN ms : sideB(i) = side /\ ms[i].winner # "A"})
    IN  withRanks(StableSort("team",
            [k \in DOMAIN sides |->
                [team_key |-> joinIds(sides[k]), player_ids |-> sides[k], rank |-> 0,
                 played |-> playedOf(sides[k]), wins |-> winsOf(sides[k]),
                 losses |-> playedOf(sides[k]) - winsOf(sides[k]),
                 winPct |-> winPctOf(winsOf(sides[k]), playedOf(sides[k]))]]))

(***************************************************************************)
(* loadLeagueStandings (league-standings-read.service): the standings of   *)
(* the league read from the store.  The league has no legacy match         *)
(* (league_matches is empty).                                              *)
(***************************************************************************)
\* league_members rows of the league, in the order the store returns them
memberIds == SelectSeq(SortedUserIds, LAMBDA u : league_members[u] # Null)

FixtureOrder == <<"f1", "t1">>          \* league_fixtures rows, in store order

\* getFinalResultFromMetadata(metadata)?.winner || null
finalWinner(metadata) ==
    CASE metadata.final_result = "A_wins" -> "A"
      [] metadata.final_result = "B_wins" -> "B"
      [] OTHER -> Null

\* (variant of finalizedFixtures: every fixture is read, whatever its status)
allFixtures(s) ==
    SelectSeq(FixtureOrder, LAMBDA f : f \in DOMAIN s.league_fixtures)

\* from('league_fixtures').eq('status', 'finalized')
finalizedFixtures(s) ==
    SelectSeq(FixtureOrder,
              LAMBDA f : /\ f \in DOMAIN s.league_fixtures
                         /\ s.league_fixtures[f].status = "finalized")

fixtureMatches(s) ==
    LET fs == finalizedFixtures(s) IN
    [i \in DOMAIN fs |->
        [id |-> "workflow:" \o fs[i], status |-> "completed",
         week_number |-> s.league_fixtures[fs[i]].week_number,
         winner |-> finalWinner(s.league_fixtures[fs[i]].metadata)]]

\* from('league_fixture_participants').in('fixture_id', fixtureIds)
fixtureParticipants(s) ==
    LET fs == finalizedFixtures(s) IN
    Concat([i \in DOMAIN fs |->
        LET us == SelectSeq(SortedUserIds,
                            LAMBDA u : league_fixture_participants[fs[i]][u] # Null)
        IN  [k \in DOMAIN us |->
                [match_id |-> "workflow:" \o fs[i], user_id |-> us[k],
                 team |-> league_fixture_participants[fs[i]][us[k]],
                 time_seconds |-> NoTime, distance_meters |-> 0]]])

\* from('running_sessions').eq('status', 'finalized'), only for a running league
finalizedSessions(s) ==
    IF s.leagues.sport_type = "running"
    THEN SelectSeq(<<"s1">>,
                   LAMBDA x : /\ x \in DOMAIN s.running_sessions
                              /\ s.running_sessions[x].status = "finalized")
    ELSE <<>>

sessionMatches(s) ==
    LET ss == finalizedSessions(s) IN
    [i \in DOMAIN ss |->
        [id |-> "running:" \o ss[i], status |-> "completed",
         week_number |-> s.running_sessions[ss[i]].week_number, winner |-> Null]]

\* from('session_runs').in('session_id', sessionIds).eq('status', 'finalized')
finalizedRuns(s) ==
    IF finalizedSessions(s) = <<>> THEN <<>>
    ELSE SelectSeq(s.session_runs, LAMBDA run : run.status = "finalized")

sessionParticipants(s) ==
    LET runs == finalizedRuns(s) IN
    [i \in DOMAIN runs |->
        [match_id |-> "running:s1", user_id |-> runs[i].user_id, team |-> Null,
         time_seconds |-> runs[i].elapsed_seconds,
         distance_meters |-> runs[i].distance_meters]]

\* rules sessions.comparison_mode || standings.mode, absolute_performance or not
runningComparisonModeOf(s) ==
    IF s.leagues.comparison_mode = "absolute_performance"
    THEN "absolute_performance" ELSE "personal_progress"

loadLeagueStandings(s) ==
    LET rankingMatches == fixtureMatches(s) \o sessionMatches(s)
        rankingParticipants == fixtureParticipants(s) \o sessionParticipants(s)
        \* options.runningComparisonMode || 'absolute_performance'
        mode == IF s.leagues.sport_type = "running" THEN runningComparisonModeOf(s)
                ELSE "absolute_performance"
    IN  [standings |-> calculateStandings(s.leagues.scoring_format, rankingMatches,
                                          rankingParticipants, memberIds, mode),
         teamStandings |->
            IF s.leagues.scoring_format = "doubles"
            THEN calculateTeamStandings(rankingMatches, rankingParticipants, memberIds)
            ELSE <<>>,
         sources |->
            [legacyCompletedMatches |-> 0,
             workflowFinalizedFixtures |-> Len(finalizedFixtures(s)),
             workflowFinalizedSessions |-> Len(finalizedSessions(s))]]

(***************************************************************************)
(* SpecStandings: the standings of a league are read in any state the      *)
(* workflows can leave its fixture, its session and its runs in.           *)
(***************************************************************************)
FixtureStatuses ==
    {"scheduled", "submitted", "confirmed", "disputed", "finalized", "cancelled"}
RunStatuses == {"submitted", "approved", "rejected", "finalized"}

\* a fixture carries a final result once it has been finalized (and keeps it
\* if a reject vote then makes it disputed)
MatchFixtureRow(st, res) ==
    [ScheduledFixture("league_match", 1) EXCEPT
        !.status = st, !.metadata = [NoMetadata EXCEPT !.final_result = res]]

MatchFixtureRows ==
    {MatchFixtureRow(st, Absent) : st \in FixtureStatuses}
        \cup {MatchFixtureRow(st, res) : st \in {"finalized", "disputed"}, res \in Payloads}

RunRow(u, st, e) ==
    [user_id |-> u, status |-> st, elapsed_seconds |-> e, distance_meters |-> 1,
     reviewed_by |-> Null]

\* the runs of the session: a1's (if any), then a2's (if any)
RunTables ==
    {r1 \o r2 :
        r1 \in {<<>>} \cup {<<RunRow("a1", st, e)>> : st \in RunStatuses, e \in {1, 2}},
        r2 \in {<<>>} \cup {<<RunRow("a2", st, 2)>> : st \in RunStatuses}}

InitStandings ==
    /\ leagues \in [sport_type : {"tennis", "running"},
                    require_organizer_approval : {FALSE},
                    scoring_format : {"singles", "doubles", "individual_time"},
                    comparison_mode : {"absolute_performance", Absent}]
    /\ \E row \in MatchFixtureRows :
          \/ /\ league_fixtures = [f \in MatchFixtures |-> row]
             /\ running_sessions = <<>>
             /\ session_runs = <<>>
          \/ \E st \in SessionStatuses, fst \in {"scheduled", "finalized"} :
                /\ league_fixtures =
                      [f \in FixtureIds |->
                          IF f \in MatchFixtures THEN row
                          ELSE [ScheduledFixture("time_trial_session", 1)
                                    EXCEPT !.status = fst]]
                /\ running_sessions =
                      [x \in {"s1"} |->
                          [status |-> st, week_number |-> 1, distance_meters |-> 1]]
                /\ session_runs \in RunTables
    /\ result_submissions = <<>>
    /\ result_confirmations = {}
    /\ reqs = <<>>
    /\ last = NoResponse
    /\ calls = 0
    /\ calc = NoCalc

\* GET /:id/standings
readStandings ==
    /\ calc = NoCalc
    /\ calc' = [fn |-> "loadLeagueStandings", output |-> loadLeagueStandings(Store)]
    /\ UNCHANGED <<leagues, league_fixtures, result_submissions, result_confirmations,
                   running_sessions, session_runs, reqs, last, calls>>

NextStandings == readStandings

SpecStandings == InitStandings /\ [][NextStandings]_vars

(***************************************************************************)
(* The schedule generators (fixture-schedule.service).  A pending call     *)
(* holds the arguments; the action runs the generator and keeps its        *)
(* output.  Arrays are 0-based in the source and 1-based here.             *)
(***************************************************************************)
MaxRoster == 6             \* members a singles or assigned-doubles league has
MaxWeeks == 5              \* weeks a singles or assigned-doubles season has
MaxShuffleRoster == 8      \* members a random-doubles league has
MaxShuffleWeeks == 2       \* weeks a random-doubles season has
MaxShuffleOutcomes == 50000  \* shuffle outcomes explored for one call

MemberPool == <<"u1", "u2", "u3", "u4", "u5", "u6", "u7", "u8", "u9", "u10">>

BYE == "BYE"

Fixture(week, a, b) == [weekNumber |-> week, sideA |-> a, sideB |-> b]

\* (variant of rotated: the entries never turn)
unrotated(ids, week) == ids

\* rotated: the first entry stays, the others turn by roundIndex
rotated(ids, week) ==
    LET count == Len(ids)
        totalRounds == count - 1
        roundIndex == (week - 1) % totalRounds
    IN  [k \in 1..count |->
            IF k = 1 THEN ids[1]
            ELSE ids[(((k - 2) + roundIndex) % (count - 1)) + 2]]

\* for (i = 0; i < count / 2; i++): a against b, counted from both ends
pairings(list) ==
    [i \in 1..(Len(list) \div 2) |-> <<list[i], list[Len(list) + 1 - i]>>]

\* (variant of singlesWeek: a pairing with BYE is kept)
singlesWeekWithBye(ids, week) ==
    LET ps == pairings(rotated(ids, week))
    IN  [i \in DOMAIN ps |-> Fixture(week, <<ps[i][1]>>, <<ps[i][2]>>)]

\* the fixtures pushed for one week
singlesWeek(ids, week) ==
    LET ps == SelectSeq(pairings(rotated(ids, week)),
                        LAMBDA p : ~(p[1] = BYE \/ p[2] = BYE))
    IN  [i \in DOMAIN ps |-> Fixture(week, <<ps[i][1]>>, <<ps[i][2]>>)]

generateSinglesSchedule(roster, weeks) ==
    LET ids == IF Len(roster) % 2 # 0 THEN Append(roster, BYE) ELSE roster
    IN  Concat([week \in 1..weeks |-> singlesWeek(ids, week)])

\* [arr[i], arr[j]] = [arr[j], arr[i]]
swap(arr, i, j) == [arr EXCEPT ![i + 1] = arr[j + 1], ![j + 1] = arr[i + 1]]

\* (variant of fisherYatesShuffle: arr[i] takes arr[j], arr[j] is left alone)
RECURSIVE fisherYatesCopy(_, _, _)
fisherYatesCopy(arr, i, random) ==
    IF i <= 0 THEN arr
    ELSE fisherYatesCopy([arr EXCEPT ![i + 1] = arr[random[i] + 1]], i - 1, random)

\* for (i = arr.length - 1; i > 0; i--): random[i] is the j drawn at step i,
\* Math.floor(Math.random() * (i + 1))
RECURSIVE fisherYatesShuffle(_, _, _)
fisherYatesShuffle(arr, i, random) ==
    IF i <= 0 THEN arr
    ELSE fisherYatesShuffle(swap(arr, i, random[i]), i - 1, random)

\* the draws of one shuffle of k + 1 entries: random[i] \in 0..i
RECURSIVE Draws(_)
Draws(k) ==
    IF k = 0 THEN {<<>>}
    ELSE {Append(d, j) : d \in Draws(k - 1), j \in 0..k}

doublesRandomWeek(roster, week, random) ==
    LET shuffled == fisherYatesShuffle(roster, Len(roster) - 1, random)
        playable == Len(shuffled) - (Len(shuffled) % 4)
    IN  [g \in 1..(playable \div 4) |->
            Fixture(week,
                    <<shuffled[4 * g - 3], shuffled[4 * g - 2]>>,
                    <<shuffled[4 * g - 1], shuffled[4 * g]>>)]

\* randoms[week]: the draws of the shuffle of that week
generateDoublesRandomSchedule(roster, weeks, randoms) ==
    Concat([week \in 1..weeks |-> doublesRandomWeek(roster, week, randoms[week])])

\* (variant of assignedTeams: the configured pairs are ignored)
generatedTeams(roster, fixedTeams) ==
    [i \in 1..(Len(roster) \div 2) |-> <<roster[2 * i - 1], roster[2 * i]>>]

\* teams: the fixed teams if any, else consecutive members
assignedTeams(roster, fixedTeams) ==
    IF Len(fixedTeams) > 0
    THEN [i \in DOMAIN fixedTeams |-> <<fixedTeams[i][1], fixedTeams[i][2]>>]
    ELSE [i \in 1..(Len(roster) \div 2) |-> <<roster[2 * i - 1], roster[2 * i]>>]

assignedWeek(teamList, week) ==
    LET ps == SelectSeq(pairings(rotated(teamList, week)),
                        LAMBDA p : ~(p[1][1] = BYE \/ p[2][1] = BYE))
    IN  [i \in DOMAIN ps |-> Fixture(week, ps[i][1], ps[i][2])]

generateDoublesAssignedSchedule(roster, weeks, fixedTeams) ==
    LET teams == assignedTeams(roster, fixedTeams)
        teamList == IF Len(teams) % 2 # 0 THEN Append(teams, <<BYE, BYE>>) ELSE teams
    IN  IF Len(teams) < 2 THEN <<>>
        ELSE Concat([week \in 1..weeks |-> assignedWeek(teamList, week)])

PoolIds(n) == {MemberPool[i] : i \in 1..n}

\* the rosters: n distinct member ids of the set, in any order
RECURSIVE Rosters(_, _)
Rosters(ids, n) ==
    IF n = 0 THEN {<<>>}
    ELSE UNION {{Append(r, u) : u \in ids \ Range(r)} : r \in Rosters(ids, n - 1)}

\* k pairs as getConfiguredFixedPairs returns them: no member in two pairs
FixedTeamLists(ids, k) ==
    {[i \in 1..k |-> <<r[2 * i - 1], r[2 * i]>>] : r \in Rosters(ids, 2 * k)}

RECURSIVE Factorial(_)
Factorial(n) == IF n <= 1 THEN 1 ELSE n * Factorial(n - 1)

\* the shuffles of the weeks have at most cap outcomes: (n!)^weeks <= cap
RECURSIVE OutcomesWithin(_, _, _)
OutcomesWithin(n, weeks, cap) ==
    IF weeks = 0 THEN cap >= 1
    ELSE /\ Factorial(n) <= cap
         /\ OutcomesWithin(n, weeks - 1, cap \div Factorial(n))

PendingCall(call, roster, weeks, fixedTeams) ==
    [fn |-> "pending", call |-> call, memberIds |-> roster, weeks |-> weeks,
     fixedTeams |-> fixedTeams]

\* singles: any roster of 2..MaxRoster members.  Assigned doubles: the roster
\* is the pool in order and the pairs are any disjoint pairs of it, or none
\* (the pairs are then generated).  Random doubles: the shuffle visits every
\* order of the roster, so the roster is drawn in one order only.
InitSchedule ==
    /\ leagues = [sport_type |-> "tennis", require_organizer_approval |-> FALSE]
    /\ league_fixtures = <<>>
    /\ result_submissions = <<>>
    /\ result_confirmations = {}
    /\ running_sessions = <<>>
    /\ session_runs = <<>>
    /\ reqs = <<>>
    /\ last = NoResponse
    /\ calls = 0
    /\ \/ \E n \in 2..MaxRoster, w \in 1..MaxWeeks :
             \E r \in Rosters(PoolIds(MaxRoster), n) :
                calc = PendingCall("generateSinglesSchedule", r, w, <<>>)
       \/ \E w \in 1..MaxWeeks :
             calc = PendingCall("generateDoublesAssignedSchedule",
                                SubSeq(MemberPool, 1, MaxRoster), w, <<>>)
       \/ \E k \in 2..(MaxRoster \div 2), w \in 1..MaxWeeks :
             \E ft \in FixedTeamLists(PoolIds(MaxRoster), k) :
                calc = PendingCall("generateDoublesAssignedSchedule",
                                   SubSeq(MemberPool, 1, MaxRoster), w, ft)
       \/ \E n \in 4..MaxShuffleRoster, w \in 1..MaxShuffleWeeks :
             calc = PendingCall("generateDoublesRandomSchedule",
                                SubSeq(MemberPool, 1, n), w, <<>>)

Returned(output) ==
    /\ calc' = [fn |-> calc.call, memberIds |-> calc.memberIds, weeks |-> calc.weeks,
                fixedTeams |-> calc.fixedTeams, output |-> output]
    /\ UNCHANGED <<leagues, league_fixtures, result_submissions, result_confirmations,
                   running_sessions, session_runs, reqs, last, calls>>

scheduleSingles ==
    /\ calc.fn = "pending"
    /\ calc.call = "generateSinglesSchedule"
    /\ Returned(generateSinglesSchedule(calc.memberIds, calc.weeks))

scheduleDoublesAssigned ==
    /\ calc.fn = "pending"
    /\ calc.call = "generateDoublesAssignedSchedule"
    /\ Returned(generateDoublesAssignedSchedule(calc.memberIds, calc.weeks,
                                                calc.fixedTeams))

scheduleDoublesRandom ==
    /\ calc.fn = "pending"
    /\ calc.call = "generateDoublesRandomSchedule"
    /\ OutcomesWithin(Len(calc.memberIds), calc.weeks, MaxShuffleOutcomes)
    /\ \E randoms \in [1..calc.weeks -> Draws(Len(calc.memberIds) - 1)] :
          Returned(generateDoublesRandomSchedule(calc.memberIds, calc.weeks, randoms))

NextSchedule == scheduleSingles \/ scheduleDoublesAssigned \/ scheduleDoublesRandom

SpecSchedule == InitSchedule /\ [][NextSchedule]_vars

(***************************************************************************)
(* getConfiguredFixedPairs (league-rules.service).  rules.match.fixed_pairs *)
(* is any JSON value: [isArray, items]; an entry of it is any JSON value:  *)
(* [isArray, items]; an item of an entry is [type, value].                 *)
(***************************************************************************)
Str(v) == [type |-> "string", value |-> v]

\* a number, kept as its text
Num(v) == [type |-> "number", value |-> v]

JsonArray(items) == [isArray |-> TRUE, items |-> items]

NotAnArray == [isArray |-> FALSE, items |-> <<>>]

PairEntry(a, b) == JsonArray(<<Str(a), Str(b)>>)

\* typeof item === 'string' ? item : ''
asString(item) == IF item.type = "string" THEN item.value ELSE ""

\* (variant of pairUsed: no member counts as used)
pairNeverUsed(used, a, b) == FALSE

\* used.has(a) || used.has(b)
pairUsed(used, a, b) == a \in used \/ b \in used

\* the body of the loop for the entries from index i on
RECURSIVE normalizeFrom(_, _, _, _, _)
normalizeFrom(fixedPairs, i, used, normalized, validMemberIds) ==
    IF i > Len(fixedPairs) THEN normalized
    ELSE LET entry == fixedPairs[i]
             a == asString(entry.items[1])
             b == asString(entry.items[2])
             skip == \/ ~entry.isArray
                     \/ Len(entry.items) # 2
                     \/ a = "" \/ b = "" \/ a = b
                     \/ a \notin validMemberIds \/ b \notin validMemberIds
                     \/ pairUsed(used, a, b)
         IN  IF skip
             THEN normalizeFrom(fixedPairs, i + 1, used, normalized, validMemberIds)
             ELSE normalizeFrom(fixedPairs, i + 1, used \cup {a, b},
                                Append(normalized, <<a, b>>), validMemberIds)

getConfiguredFixedPairs(fixed_pairs, validMemberIds) ==
    IF ~fixed_pairs.isArray THEN <<>>
    ELSE normalizeFrom(fixed_pairs.items, 1, {}, <<>>, validMemberIds)

(***************************************************************************)
(* POST /:id/schedule/generate.  A fixture row made here keeps, next to    *)
(* its columns, the request that inserted it                               *)
(* (request) and its league_fixture_participants rows (sideA, sideB, empty *)
(* until they are inserted).                                               *)
(***************************************************************************)
DefaultSeasonWeeks == 10

\* ruleWeeks || league.season_weeks || 10  (0: null)
seasonWeeksOf(league) ==
    IF league.rule_weeks # 0 THEN league.rule_weeks
    ELSE IF league.season_weeks # 0 THEN league.season_weeks
    ELSE DefaultSeasonWeeks

\* partnerMode === 'fixed_pairs' || league.rotation_type === 'assigned'
isAssigned(league) ==
    league.doubles_partner_mode = "fixed_pairs" \/ league.rotation_type = "assigned"

\* randoms: what Math.random returns to the shuffles of this request;
\* refused: the store answers the insert that follows the fixture's
\* (participants or session) with an error
GenReq(userId, request, randoms) ==
    [op |-> "generateSchedule", userId |-> userId, request |-> request,
     randoms |-> randoms, refused |-> FALSE, pc |-> "start", status |-> 0, league |-> Null,
     seasonWeeks |-> 0, schedule |-> <<>>, index |-> 1, week |-> 1,
     fixtureId |-> 0, createdFixtures |-> 0, createdSessions |-> 0,
     createdParticipants |-> 0]

generate_getLeagueRole(s, r) ==
    IF ~isLeagueAdminRole(getLeagueRole(r.userId)) THEN Out(s, Reply(r, 403))
    ELSE Out(s, [r EXCEPT !.pc = "getLeague"])

generate_getLeague(s, r) ==
    Out(s, [r EXCEPT !.league = s.leagues, !.seasonWeeks = seasonWeeksOf(s.leagues),
                     !.pc = "countFixtures"])

\* select('id', {count: 'exact'}).eq(league_id).neq('status', 'cancelled')
existingFixtures(s) ==
    Cardinality({f \in DOMAIN s.league_fixtures :
                    s.league_fixtures[f].status # "cancelled"})

generate_countFixtures(s, r) ==
    IF existingFixtures(s) > 0 THEN Out(s, Reply(r, 409))
    ELSE Out(s, [r EXCEPT !.pc = "selectMembers"])

\* select('user_id') from league_members of the league, in store order
selectMembers(s) == s.leagues.member_ids

\* (variant of tooFewMembers: every roster is large enough)
neverTooFewMembers(scoring_format, n) == FALSE

\* singles needs at least 2 members, doubles at least 4
tooFewMembers(scoring_format, n) ==
    \/ scoring_format = "singles" /\ n < 2
    \/ scoring_format = "doubles" /\ n < 4

\* the members are loaded; the schedule is computed from them without a
\* further store operation
generate_selectMembers(s, r) ==
    LET league == r.league
        roster == selectMembers(s)
        doubles == league.scoring_format = "doubles"
        configuredFixedPairs ==
            getConfiguredFixedPairs(league.fixed_pairs, Range(roster))
        schedule ==
            IF league.scoring_format = "singles"
            THEN generateSinglesSchedule(roster, r.seasonWeeks)
            ELSE IF isAssigned(league)
            THEN generateDoublesAssignedSchedule(roster, r.seasonWeeks,
                                                 configuredFixedPairs)
            ELSE generateDoublesRandomSchedule(roster, r.seasonWeeks, r.randoms)
    IN  IF Len(roster) = 0 THEN Out(s, Reply(r, 400))
        ELSE IF league.sport_type = "running"
        THEN Out(s, IF r.seasonWeeks >= 1
                    THEN [r EXCEPT !.week = 1, !.pc = "insertTrialFixture"]
                    ELSE Reply(r, 200))
        ELSE IF tooFewMembers(league.scoring_format, Len(roster))
        THEN Out(s, Reply(r, 400))
        ELSE IF doubles /\ isAssigned(league) /\ Len(configuredFixedPairs) < 2
        THEN Out(s, Reply(r, 400))
        ELSE IF league.scoring_format \notin {"singles", "doubles"}
        THEN Out(s, Reply(r, 400))
        ELSE Out(s, IF Len(schedule) = 0 THEN Reply(r, 200)
                    ELSE [r EXCEPT !.schedule = schedule, !.index = 1,
                                   !.pc = "insertFixture"])

\* the id the store gives to a new league_fixtures row: no other row has
\* it; here the request and the place in the request's loop
newFixtureId(r, k) == <<r.request, k>>

GeneratedFixture(type, week, r) ==
    [request |-> r.request, created_by |-> r.userId, sideA |-> <<>>, sideB |-> <<>>]
        @@ ScheduledFixture(type, week)

insertFixtureRow(s, id, row) ==
    [s EXCEPT !.league_fixtures =
        [f \in DOMAIN s.league_fixtures \cup {id} |->
            IF f = id THEN row ELSE s.league_fixtures[f]]]

\* (variant of deleteFixtureRow: the row stays)
keepFixtureRow(s, id) == s

\* delete().eq('id', fixture.id)
deleteFixtureRow(s, id) ==
    [s EXCEPT !.league_fixtures =
        [f \in DOMAIN s.league_fixtures \ {id} |-> s.league_fixtures[f]]]

\* for (const entry of schedule): insert into league_fixtures
generate_insertFixture(s, r) ==
    LET entry == r.schedule[r.index]
        id == newFixtureId(r, r.index)
    IN  Out(insertFixtureRow(s, id, GeneratedFixture("league_match", entry.weekNumber, r)),
            [r EXCEPT !.fixtureId = id, !.pc = "insertParticipants"])

\* insert into league_fixture_participants; the loop goes on or the call ends
generate_insertParticipants(s, r) ==
    LET entry == r.schedule[r.index]
        done == [r EXCEPT !.createdFixtures = @ + 1,
                          !.createdParticipants =
                              @ + Len(entry.sideA) + Len(entry.sideB)]
    IN  IF r.refused
        THEN Out(deleteFixtureRow(s, r.fixtureId), Reply(r, 500))
        ELSE Out([s EXCEPT !.league_fixtures[r.fixtureId] =
                     [@ EXCEPT !.sideA = entry.sideA, !.sideB = entry.sideB]],
                 IF r.index < Len(r.schedule)
                 THEN [done EXCEPT !.index = @ + 1, !.pc = "insertFixture"]
                 ELSE Reply(done, 200))

\* running league, for (week = 1; week <= seasonWeeks; week++): the fixture
generate_insertTrialFixture(s, r) ==
    LET id == newFixtureId(r, r.week) IN
    Out(insertFixtureRow(s, id, GeneratedFixture("time_trial_session", r.week, r)),
        [r EXCEPT !.fixtureId = id, !.createdFixtures = @ + 1,
                  !.pc = "insertSession"])

\* the running_sessions row of the week; a league has one session a week
\* (the key of the upsert of POST /:id/sessions), a second insert fails and
\* the fixture just made is deleted
generate_insertSession(s, r) ==
    LET id == SessionOfWeek(r.week)
        rs == s.running_sessions
        row == [status |-> "scheduled", week_number |-> r.week, distance_meters |-> 0]
    IN  IF id \in DOMAIN rs \/ r.refused
        THEN Out(deleteFixtureRow(s, r.fixtureId), Reply(r, 500))
        ELSE Out([s EXCEPT !.running_sessions =
                     [x \in DOMAIN rs \cup {id} |-> IF x = id THEN row ELSE rs[x]]],
                 IF r.week < r.seasonWeeks
                 THEN [r EXCEPT !.createdSessions = @ + 1, !.week = @ + 1,
                                !.pc = "insertTrialFixture"]
                 ELSE Reply([r EXCEPT !.createdSessions = @ + 1], 200))

generateStep(s, r) ==
    CASE r.pc = "start" -> generate_getLeagueRole(s, r)
      [] r.pc = "getLeague" -> generate_getLeague(s, r)
      [] r.pc = "countFixtures" -> generate_countFixtures(s, r)
      [] r.pc = "selectMembers" -> generate_selectMembers(s, r)
      [] r.pc = "insertFixture" -> generate_insertFixture(s, r)
      [] r.pc = "insertParticipants" -> generate_insertParticipants(s, r)
      [] r.pc = "insertTrialFixture" -> generate_insertTrialFixture(s, r)
      [] r.pc = "insertSession" -> generate_insertSession(s, r)

RECURSIVE generateSchedule(_, _)
generateSchedule(s, r) ==
    IF r.pc = "done" THEN Out(s, r)
    ELSE LET o == generateStep(s, r) IN generateSchedule(o.store, o.req)

(***************************************************************************)
(* SpecGen: schedule generation with requests in flight together.  The     *)
(* league is a running league, a singles league, a doubles league with     *)
(* assigned or random partners, or a league of a format that has no        *)
(* schedule; it has no fixture yet, or one cancelled fixture.  Each step   *)
(* of a request is one store operation.                                    *)
(***************************************************************************)
MaxGenCalls == 2           \* generateSchedule requests of one behaviour
SeasonWeeks == {-1, 1, 2}  \* league.season_weeks

GenUsers == {"o", "a1"}               \* the owner and a plain member

\* the league's row, with its league_members rows (member_ids)
GenLeague(sport, format, rotation, fixed_pairs, weeks, ruleWeeks, roster) ==
    [sport_type |-> sport, require_organizer_approval |-> FALSE,
     scoring_format |-> format, rotation_type |-> rotation,
     doubles_partner_mode |-> Null, fixed_pairs |-> fixed_pairs,
     season_weeks |-> weeks, rule_weeks |-> ruleWeeks, member_ids |-> roster]

\* the league's members: all five, the owner and two more, or the owner alone
GenRosters == {memberIds, <<"a1", "a2", "o">>, <<"o">>}

\* rules.match.fixed_pairs: none, two teams, or one team and an entry that
\* reuses a member of it
FixedPairsRules ==
    {NotAnArray,
     JsonArray(<<PairEntry("a1", "a2"), PairEntry("b1", "m")>>),
     JsonArray(<<PairEntry("a1", "a2"), PairEntry("a2", "b1")>>)}

\* what Math.random returns in one shuffle of k + 1 entries: always the
\* lowest index, or always the highest
RouteDraws(k) == {[i \in 1..k |-> 0], [i \in 1..k |-> i]}

shuffles(league) ==
    /\ league.sport_type # "running"
    /\ league.scoring_format = "doubles"
    /\ ~isAssigned(league)

InitGen ==
    /\ \E weeks \in SeasonWeeks, ruleWeeks \in {0, 1}, roster \in GenRosters :
          \* rules.schedule.season_weeks is not set, or is 1 in a league of
          \* 2 weeks; the small rosters are those of leagues of 1 week
          /\ ruleWeeks = 1 => weeks = 2
          /\ roster # memberIds => weeks = 1
          /\ \/ leagues = GenLeague("running", "individual_time", "random",
                                    NotAnArray, weeks, ruleWeeks, roster)
             \/ leagues = GenLeague("tennis", "singles", "random",
                                    NotAnArray, weeks, ruleWeeks, roster)
             \/ leagues = GenLeague("tennis", "doubles", "random",
                                    NotAnArray, weeks, ruleWeeks, roster)
             \/ \E fp \in FixedPairsRules :
                   leagues = GenLeague("tennis", "doubles", "assigned", fp,
                                       weeks, ruleWeeks, roster)
             \/ leagues = GenLeague("tennis", "team_vs_team", "random",
                                    NotAnArray, weeks, ruleWeeks, roster)
    /\ \/ league_fixtures = <<>>
       \/ league_fixtures =
             [f \in {<<0, 1>>} |->
                 [GeneratedFixture("league_match", 1, GenReq("o", 0, <<>>))
                     EXCEPT !.status = "cancelled"]]
    /\ result_submissions = <<>>
    /\ result_confirmations = {}
    /\ running_sessions = <<>>
    /\ session_runs = <<>>
    /\ reqs = [i \in Slots |-> Idle]
    /\ last = NoResponse
    /\ calls = 0
    /\ calc = NoCalc

GenResponse(r) ==
    [op |-> r.op, userId |-> r.userId, request |-> r.request, status |-> r.status,
     createdFixtures |-> r.createdFixtures, createdSessions |-> r.createdSessions,
     createdParticipants |-> r.createdParticipants]

\* a generateSchedule request arrives and takes the first free slot
beginGenerate ==
    \E i \in Slots, u \in GenUsers :
        \E randoms \in IF shuffles(leagues)
                       THEN [1..seasonWeeksOf(leagues) ->
                                RouteDraws(Len(leagues.member_ids) - 1)]
                       ELSE {<<>>} :
            /\ calls < MaxGenCalls
            /\ reqs[i] = Idle
            /\ \A j \in Slots : j < i => reqs[j] # Idle
            /\ reqs' = [reqs EXCEPT ![i] = GenReq(u, calls + 1, randoms)]
            /\ calls' = calls + 1
            /\ UNCHANGED <<leagues, league_fixtures, result_submissions,
                           result_confirmations, running_sessions, session_runs,
                           last, calc>>

\* the request in slot i performs its next store operation; with the last
\* one it responds and leaves.  The store may refuse the insert of the
\* participants or of the session.
stepGenerate ==
    \E i \in Slots :
        /\ reqs[i] # Idle
        /\ \E refused \in IF reqs[i].pc \in {"insertParticipants", "insertSession"}
                          THEN BOOLEAN ELSE {FALSE} :
              LET o == generateStep(Store, [reqs[i] EXCEPT !.refused = refused]) IN
              /\ Commit(o.store)
              /\ IF o.req.pc = "done"
                 THEN /\ reqs' = [reqs EXCEPT ![i] = Idle]
                      /\ last' = GenResponse(o.req)
                 ELSE /\ reqs' = [reqs EXCEPT ![i] = o.req]
                      /\ UNCHANGED last
        /\ UNCHANGED <<calls, calc>>

NextGen == beginGenerate \/ stepGenerate

SpecGen == InitGen /\ [][NextGen]_vars

(***************************************************************************)
(* SpecPairs: getConfiguredFixedPairs over drawn rules and member sets.    *)
(* A pending call holds the arguments; the action runs the function and    *)
(* keeps its output.                                                       *)
(***************************************************************************)
MaxPairEntries == 3        \* entries of rules.match.fixed_pairs

\* the items of an entry: four user ids and a number
PairItems == {Str("u1"), Str("u2"), Str("u3"), Str("u4"), Num("7")}

\* an entry: any two items, an empty id on either place, one item, three
\* items, or a value that is no array
PairEntries ==
    {JsonArray(<<a, b>>) : a \in PairItems, b \in PairItems}
        \cup {PairEntry("", "u1"), PairEntry("u1", ""),
              JsonArray(<<Str("u1")>>),
              JsonArray(<<Str("u1"), Str("u2"), Str("u3")>>),
              NotAnArray}

\* the league's members: u4 is one of them or not
MemberSets == {{"u1", "u2", "u3", "u4"}, {"u1", "u2", "u3"}}

PendingPairs(fixed_pairs, validMemberIds) ==
    [fn |-> "pending", call |-> "getConfiguredFixedPairs",
     fixed_pairs |-> fixed_pairs, validMemberIds |-> validMemberIds]

InitPairs ==
    /\ leagues = [sport_type |-> "tennis", require_organizer_approval |-> FALSE]
    /\ league_fixtures = <<>>
    /\ result_submissions = <<>>
    /\ result_confirmations = {}
    /\ running_sessions = <<>>
    /\ session_runs = <<>>
    /\ reqs = <<>>
    /\ last = NoResponse
    /\ calls = 0
    /\ \E members \in MemberSets :
          \/ calc = PendingPairs(NotAnArray, members)
          \/ \E n \in 0..MaxPairEntries :
                \E entries \in [1..n -> PairEntries] :
                   calc = PendingPairs(JsonArray(entries), members)

normalizePairs ==
    /\ calc.fn = "pending"
    /\ calc.call = "getConfiguredFixedPairs"
    /\ calc' = [fn |-> calc.call, fixed_pairs |-> calc.fixed_pairs,
                validMemberIds |-> calc.validMemberIds,
                output |-> getConfiguredFixedPairs(calc.fixed_pairs,
                                                   calc.validMemberIds)]
    /\ UNCHANGED <<leagues, league_fixtures, result_submissions, result_confirmations,
                   running_sessions, session_runs, reqs, last, calls>>

NextPairs == normalizePairs

SpecPairs == InitPairs /\ [][NextPairs]_vars

(***************************************************************************)
(* calculateStandings and calculateTeamStandings over drawn matches and    *)
(* participants.  A pending call holds the arguments; the action runs the  *)
(* function and keeps its output.                                          *)
(***************************************************************************)
MaxMatches == 2            \* matches handed to one call

MatchIds == <<"m1", "m2", "m3", "m4">>

\* a match: completed with winner A, B or none, or not yet completed
MatchOutcomes ==
    {[status |-> "completed", winner |-> "A"],
     [status |-> "completed", winner |-> "B"],
     [status |-> "completed", winner |-> Null],
     [status |-> "scheduled", winner |-> Null]}

RankingMatch(i, outcome) ==
    [id |-> MatchIds[i], status |-> outcome.status, week_number |-> i,
     winner |-> outcome.winner]

RankingParticipant(i, u, team, time) ==
    [match_id |-> MatchIds[i], user_id |-> u, team |-> team, time_seconds |-> time,
     distance_meters |-> 0]

\* the participant rows of match i: one per member of a side, the later ids
\* first
sideRows(i, sideA, sideB) ==
    LET us == SelectSeq(<<"x", "o", "m", "b1", "a2", "a1">>,
                        LAMBDA u : u \in sideA \cup sideB)
    IN  [k \in DOMAIN us |->
            RankingParticipant(i, us[k], IF us[k] \in sideA THEN "A" ELSE "B", NoTime)]

\* the sides of a match: two disjoint sides out of the given ones
Pairings(sides) == {<<a, b>> \in sides \X sides : a \cap b = {}}

SinglesSides == {{"a1"}, {"a2"}, {"m"}}
DoublesSides == {{"a1", "a2"}, {"b1", "m"}, {"a1", "b1"}, {"a2", "m"}}
TeamSides == {{"a1", "a2"}, {"a1", "a2", "b1"}, {"o"}, {"m", "o"}}

\* a choice of outcome and sides for each of k matches
MatchChoices(sides, k) == [1..k -> MatchOutcomes \X Pairings(sides)]

\* the matches and rows of a choice: [matches, participants]
matchList(c) ==
    [matches |-> [i \in DOMAIN c |-> RankingMatch(i, c[i][1])],
     participants |-> Concat([i \in DOMAIN c |-> sideRows(i, c[i][2][1], c[i][2][2])])]

\* the rows of a timed match: a1 has a row of 1 or 2 seconds or no row
\* (t1 = 0), a2 a row of 2 seconds or no row, b1 a row without a time or no row
TimeChoices == (0..2) \X {0, 2} \X BOOLEAN

timeRows(i, t1, t2, withB1) ==
    SelectSeq(<<RankingParticipant(i, "a2", Null, t2),
                RankingParticipant(i, "a1", Null, t1),
                RankingParticipant(i, "b1", Null, NoTime)>>,
              LAMBDA row : \/ row.user_id = "b1" /\ withB1
                           \/ row.user_id # "b1" /\ row.time_seconds # 0)

TimedChoices(k) == [1..k -> {"completed", "scheduled"} \X TimeChoices]

timedList(c) ==
    [matches |-> [i \in DOMAIN c |->
                     RankingMatch(i, [status |-> c[i][1], winner |-> Null])],
     participants |-> Concat([i \in DOMAIN c |->
                                 timeRows(i, c[i][2][1], c[i][2][2], c[i][2][3])])]

CalcMembers == <<"a1", "a2", "b1">>

PendingCalc(call, scoringFormat, l, mode) ==
    [fn |-> "pending", call |-> call, scoringFormat |-> scoringFormat,
     matches |-> l.matches, participants |-> l.participants,
     members |-> CalcMembers, runningComparisonMode |-> mode]

InitCalc ==
    /\ leagues = [sport_type |-> "tennis", require_organizer_approval |-> FALSE]
    /\ league_fixtures = <<>>
    /\ result_submissions = <<>>
    /\ result_confirmations = {}
    /\ running_sessions = <<>>
    /\ session_runs = <<>>
    /\ reqs = <<>>
    /\ last = NoResponse
    /\ calls = 0
    /\ \/ \E c \in MatchChoices(SinglesSides, MaxMatches) :
             calc = PendingCalc("calculateStandings", "singles", matchList(c), Absent)
       \/ \E c \in MatchChoices(DoublesSides, MaxMatches) :
             calc = PendingCalc("calculateStandings", "doubles", matchList(c), Absent)
       \/ \E c \in TimedChoices(MaxMatches), mode \in {"absolute_performance", Absent} :
             calc = PendingCalc("calculateStandings", "individual_time",
                                timedList(c), mode)
       \/ \E c \in MatchChoices(TeamSides, MaxMatches) :
             calc = PendingCalc("calculateTeamStandings", "doubles", matchList(c), Absent)

Computed(output) ==
    /\ calc' = [fn |-> calc.call, scoringFormat |-> calc.scoringFormat,
                matches |-> calc.matches, participants |-> calc.participants,
                members |-> calc.members,
                runningComparisonMode |-> calc.runningComparisonMode,
                output |-> output]
    /\ UNCHANGED <<leagues, league_fixtures, result_submissions, result_confirmations,
                   running_sessions, session_runs, reqs, last, calls>>

computeStandings ==
    /\ calc.fn = "pending"
    /\ calc.call = "calculateStandings"
    /\ Computed(calculateStandings(calc.scoringFormat, calc.matches, calc.participants,
                                   calc.members, calc.runningComparisonMode))

computeTeamStandings ==
    /\ calc.fn = "pending"
    /\ calc.call = "calculateTeamStandings"
    /\ Computed(calculateTeamStandings(calc.matches, calc.participants, calc.members))

NextCalc == computeStandings \/ computeTeamStandings

SpecCalc == InitCalc /\ [][NextCalc]_vars

(***************************************************************************)
(* Properties of the result workflow.  A property of one call is stated    *)
(* over every reachable store and every input of the call: the handler is  *)
(* run from the store (RunAll) and its response and the store it leaves    *)
(* are compared with what the claim says.                                  *)
(***************************************************************************)
TerminalStatuses == {"finalized", "cancelled"}

IsOrganizer(u) == league_members[u] \in {"owner", "admin"}

SideOf(f, u) == league_fixture_participants[f][u]

OppositeSide(side) == IF side = "A" THEN "B" ELSE "A"

SubmissionsOf(subs, f, statuses) ==
    {i \in DOMAIN subs : subs[i].fixture_id = f /\ subs[i].status \in statuses}

AcceptedOf(subs, f) == SubmissionsOf(subs, f, {"accepted"})

ConfirmVotes(id) ==
    {c \in result_confirmations : c.submission_id = id /\ c.decision = "confirm"}

AllPayloads == Payloads \cup {EmptyPayload}

\* C1: in every reachable state each fixture has at most one submission
\* whose status is accepted.
C1_AtMostOneAccepted ==
    \A f \in DOMAIN league_fixtures :
        Cardinality(AcceptedOf(result_submissions, f)) <= 1

\* C2: once a fixture's status is finalized or cancelled, no later submit,
\* confirm or resolve call changes that fixture's status.
C2_TerminalStatusStays ==
    [][\A f \in DOMAIN league_fixtures :
          league_fixtures[f].status \in TerminalStatuses
              => league_fixtures'[f].status = league_fixtures[f].status]_vars

\* C5: a submit by an owner or admin on a non-terminal fixture inserts a
\* submission with source organizer, status accepted, reviewed by the
\* submitter, sets the fixture finalized with final_result = the payload, and
\* reports finalized = true.
C5_OrganizerSubmitFinalizes ==
    \A u \in Users, f \in MatchFixtures, p \in Payloads :
        LET o == RunAll(Store, NewReq("submit", u, f, p, 0, Null))
            id == Len(result_submissions) + 1
        IN  (IsOrganizer(u) /\ league_fixtures[f].status \notin TerminalStatuses)
            => /\ o.req.status = 200
               /\ o.req.finalized
               /\ Len(o.store.result_submissions) = id
               /\ o.store.result_submissions[id] =
                     [fixture_id |-> f, submitted_by |-> u, source |-> "organizer",
                      payload |-> p, status |-> "accepted", reviewed_by |-> u]
               /\ o.store.league_fixtures[f].status = "finalized"
               /\ o.store.league_fixtures[f].metadata.final_result = p
               /\ o.store.result_confirmations = result_confirmations

C5_Witness ==
    /\ last.op = "submit"
    /\ last.finalized
    /\ IsOrganizer(last.userId)
    /\ league_fixtures[last.fixtureId].status = "finalized"
    /\ league_fixtures[last.fixtureId].metadata.final_result
          = result_submissions[last.submissionId].payload
    /\ result_submissions[last.submissionId].source = "organizer"

\* C6: a pending submission authored by a participant of side X stays pending
\* and its fixture is not finalized by confirm votes of side X (the partner);
\* a confirm vote of a participant of the opposite side marks it accepted and
\* finalizes the fixture in that call.
C6_OppositeSideConfirms ==
    \A f \in MatchFixtures, id \in DOMAIN result_submissions, u \in Users :
        LET sub == result_submissions[id]
            X == SideOf(f, sub.submitted_by)
            o == RunAll(Store, NewReq("confirm", u, f, EmptyPayload, id, "confirm"))
        IN  ( /\ sub.fixture_id = f
              /\ sub.status = "pending"
              /\ sub.source = "participant"
              /\ X \in {"A", "B"}
              /\ \A c \in ConfirmVotes(id) : c.confirming_side = X
              /\ u # sub.submitted_by
              /\ ~IsOrganizer(u)
              /\ SideOf(f, u) \in {"A", "B"} )
            => /\ o.req.status = 200
               /\ SideOf(f, u) = X =>
                     /\ ~o.req.finalized
                     /\ o.store.result_submissions[id].status = "pending"
                     /\ league_fixtures[f].status # "finalized"
                           => o.store.league_fixtures[f].status # "finalized"
               /\ SideOf(f, u) = OppositeSide(X) =>
                     /\ o.req.finalized
                     /\ o.store.result_submissions[id].status = "accepted"
                     /\ o.store.league_fixtures[f].status = "finalized"
                     /\ o.store.league_fixtures[f].metadata.final_result = sub.payload

\* a1's submission, confirmed first by the partner a2, then accepted by b1's vote
C6_Witness ==
    /\ last.op = "confirm"
    /\ last.finalized
    /\ SideOf(last.fixtureId, last.userId) = "B"
    /\ result_submissions[last.submissionId].submitted_by = "a1"
    /\ result_submissions[last.submissionId].status = "accepted"
    /\ league_fixtures[last.fixtureId].status = "finalized"
    /\ \E c \in ConfirmVotes(last.submissionId) :
          c.confirmed_by = "a2" /\ c.confirming_side = "A"

\* C7: when a fixture is disputed through a reject vote, a successful resolve
\* (by submission id or inline payload) leaves it finalized with exactly one
\* accepted submission and every other pending or rejected submission of the
\* fixture superseded.
C7_ResolveAfterReject ==
    \A u \in Users, f \in MatchFixtures, id \in SubmissionIds, p \in AllPayloads :
        LET o == RunAll(Store, NewReq("resolve", u, f, p, id, Null))
            subs == o.store.result_submissions
        IN  ( /\ league_fixtures[f].status = "disputed"
              /\ \E c \in result_confirmations :
                    c.fixture_id = f /\ c.decision = "reject"
              /\ o.req.status = 200 )
            => /\ o.store.league_fixtures[f].status = "finalized"
               /\ Cardinality(AcceptedOf(subs, f)) = 1
               /\ \A i \in SubmissionsOf(result_submissions, f, {"pending", "rejected"}) :
                     i # o.req.newId => subs[i].status = "superseded"

EligibleVoter(u, f, id) ==
    /\ id \in DOMAIN result_submissions
    /\ result_submissions[id].fixture_id = f
    /\ result_submissions[id].status = "pending"
    /\ result_submissions[id].submitted_by # u
    /\ IsOrganizer(u) \/ SideOf(f, u) \in {"A", "B"}

\* C8: a reject vote by an eligible voter on a pending submission marks it
\* rejected, sets the fixture disputed and ends the call (nothing accepted,
\* finalized = false, disputed = true); the fixture then stays disputed until
\* a later submit by an admin or a resolve.
C8_RejectDisputesAndStays ==
    /\ \A u \in Users, f \in MatchFixtures, id \in SubmissionIds :
          LET o == RunAll(Store, NewReq("confirm", u, f, EmptyPayload, id, "reject"))
          IN  EligibleVoter(u, f, id)
              => /\ o.req.status = 200
                 /\ ~o.req.finalized
                 /\ o.req.disputed
                 /\ o.store.result_submissions[id].status = "rejected"
                 /\ o.store.league_fixtures[f].status = "disputed"
                 /\ AcceptedOf(o.store.result_submissions, f)
                       = AcceptedOf(result_submissions, f)
    /\ \A f \in MatchFixtures :
          league_fixtures[f].status = "disputed"
          => /\ \A u \in Users, p \in AllPayloads :
                   ~IsOrganizer(u)
                   => RunAll(Store, NewReq("submit", u, f, p, 0, Null))
                         .store.league_fixtures[f].status = "disputed"
             /\ \A u \in Users, id \in SubmissionIds, d \in {"confirm", "reject"} :
                   RunAll(Store, NewReq("confirm", u, f, EmptyPayload, id, d))
                      .store.league_fixtures[f].status = "disputed"

\* C4: no user has more than one pending submission on a fixture, also while
\* two submits by the same user for the same fixture are in flight together.
C4_OnePendingPerUser ==
    \A f \in FixtureIds, u \in Users :
        Cardinality({i \in DOMAIN result_submissions :
                        /\ result_submissions[i].fixture_id = f
                        /\ result_submissions[i].submitted_by = u
                        /\ result_submissions[i].status = "pending"}) <= 1

(***************************************************************************)
(* Properties of the run workflow.                                         *)
(***************************************************************************)
StatusRank(status) ==
    CASE status = "scheduled" -> 0
      [] status = "submitted" -> 1
      [] status = "confirmed" -> 2
      [] status = "disputed"  -> 2
      [] status = "finalized" -> 3
      [] OTHER -> 4

\* forward in scheduled < submitted < confirmed < finalized, or sideways to disputed
MovesForward(old, new) ==
    \/ new = old
    \/ new = "disputed"
    \/ StatusRank(new) > StatusRank(old)

\* C3: no operation moves a fixture to an earlier status.
C3_StatusOnlyForward ==
    [][\A f \in DOMAIN league_fixtures \cap DOMAIN league_fixtures' :
          MovesForward(league_fixtures[f].status, league_fixtures'[f].status)]_vars

FinalizeReq(u) == RunReq("finalizeSession", u, "s1")

\* the runs finalization has to promote, read from the league's rule
EligibleRuns ==
    {v \in DOMAIN session_runs :
        IF leagues.require_organizer_approval
        THEN session_runs[v].status = "approved"
        ELSE session_runs[v].status \in {"approved", "submitted"}}

FinalizedRunsOf(runs) == {v \in DOMAIN runs : runs[v].status = "finalized"}

\* C9: a finalization of a session promotes exactly the eligible runs (the
\* approved ones if the league requires approval, else the approved and the
\* submitted ones), leaves every other run as it is, marks the session
\* finalized and reports the number of runs it promoted.
C9_FinalizePromotesEligible ==
    \A u \in Users :
        LET o == RunAll(Store, FinalizeReq(u)) IN
        o.req.status = 200 =>
            /\ \A v \in EligibleRuns : o.store.session_runs[v].status = "finalized"
            /\ \A v \in DOMAIN session_runs \ EligibleRuns :
                    o.store.session_runs[v] = session_runs[v]
            /\ DOMAIN o.store.session_runs = DOMAIN session_runs
            /\ o.store.running_sessions["s1"].status = "finalized"
            /\ o.req.finalizedRuns = Cardinality(EligibleRuns)

\* a finalization has promoted a run and has left another one out
C9_Witness ==
    /\ last.op = "finalizeSession"
    /\ last.finalizedRuns >= 1
    /\ \E v \in DOMAIN session_runs :
            session_runs[v].status \in {"rejected", "submitted"}
    /\ running_sessions["s1"].status = "finalized"

\* C10: a finalization that follows a finalization promotes no run, reports
\* finalizedRuns = 0 and leaves the set of finalized runs as it was.
C10_SecondFinalizeIdempotent ==
    \A u1 \in Users, u2 \in Users :
        LET o1 == RunAll(Store, FinalizeReq(u1))
            o2 == RunAll(o1.store, FinalizeReq(u2))
        IN  (o1.req.status = 200 /\ o2.req.status = 200) =>
                /\ o2.req.finalizedRuns = 0
                /\ o2.store.session_runs = o1.store.session_runs
                /\ FinalizedRunsOf(o2.store.session_runs) =
                        FinalizedRunsOf(o1.store.session_runs)

\* a finalization has promoted a run, the one after it has promoted none
C10_Witness ==
    /\ last.op = "finalizeSession"
    /\ last.finalizedRuns = 0
    /\ FinalizedRunsOf(session_runs) # {}

\* C11: once a run is finalized it is locked: no later submitRun or reviewRun
\* call changes that run's status, elapsed time or distance.
C11_FinalizedRunLocked ==
    [][last'.op \in {"submitRun", "reviewRun"} =>
          \A v \in DOMAIN session_runs :
              session_runs[v].status = "finalized" =>
                  /\ v \in DOMAIN session_runs'
                  /\ session_runs'[v].status = "finalized"
                  /\ session_runs'[v].elapsed_seconds = session_runs[v].elapsed_seconds
                  /\ session_runs'[v].distance_meters = session_runs[v].distance_meters]_vars

RunsOfUser(runs, u) == {i \in DOMAIN runs : runs[i].user_id = u}

\* C12: the session has at most one run per user, and a submitRun that
\* succeeds leaves the caller exactly one run, with the new elapsed time and
\* distance, the status recomputed from the league's rule and the reviewer
\* cleared; it adds a row only if the caller had none and changes no other
\* user's run.
C12_OneRunPerUser ==
    /\ \A u \in Users : Cardinality(RunsOfUser(session_runs, u)) <= 1
    /\ \A u \in RunUsers, e \in ElapsedValues, d \in DistanceInputs :
          LET o == RunAll(Store, [RunReq("submitRun", u, "s1") EXCEPT
                                    !.elapsedSeconds = e, !.distanceMeters = d])
              after == o.store.session_runs
          IN  o.req.status = 200 =>
                /\ Cardinality(RunsOfUser(after, u)) = 1
                /\ Len(after) = Len(session_runs)
                        + (IF RunsOfUser(session_runs, u) = {} THEN 1 ELSE 0)
                /\ \A i \in RunsOfUser(after, u) :
                      /\ after[i].elapsed_seconds = e
                      /\ after[i].distance_meters =
                            (IF d # 0 THEN d ELSE running_sessions["s1"].distance_meters)
                      /\ after[i].status =
                            (IF leagues.require_organizer_approval
                             THEN "submitted" ELSE "approved")
                      /\ after[i].reviewed_by = Null
                      /\ o.req.runId = i
                /\ \A i \in DOMAIN session_runs :
                      session_runs[i].user_id # u => after[i] = session_runs[i]

\* a member has submitted again after a review of the first run: the run was
\* replaced, its reviewer cleared
C12_Witness ==
    /\ last.op = "submitRun"
    /\ calls >= 3
    /\ \E i \in DOMAIN session_runs :
          /\ session_runs[i].user_id = last.userId
          /\ last.runId = i
          /\ session_runs[i].reviewed_by = Null
    /\ Len(session_runs) = 1

(***************************************************************************)
(* Properties of the standings.                                            *)
(***************************************************************************)
EntryOf(standings, u) == CHOOSE e \in Range(standings) : e.user_id = u

\* the fixture counts: it is finalized and its final result names a winner
FixtureCounts(f) ==
    /\ f \in DOMAIN league_fixtures
    /\ league_fixtures[f].status = "finalized"
    /\ league_fixtures[f].metadata.final_result \in Payloads

WinningSide(f) ==
    IF league_fixtures[f].metadata.final_result = "A_wins" THEN "A" ELSE "B"

\* the run of u counts: the league is a running league, the session is
\* finalized and the run is finalized
CountedRuns(u) ==
    {i \in DOMAIN session_runs :
        /\ session_runs[i].user_id = u
        /\ session_runs[i].status = "finalized"
        /\ leagues.sport_type = "running"
        /\ "s1" \in DOMAIN running_sessions
        /\ running_sessions["s1"].status = "finalized"}

\* C13: the standings read from the store count a fixture only while it is
\* finalized, and a run only while its session and the run are finalized:
\* every member's played, wins, losses and total time are those of the
\* finalized records alone, whatever the other fixtures and runs hold.
C13_OnlyFinalizedCount ==
    calc.fn = "loadLeagueStandings" =>
        \A k \in DOMAIN memberIds :
            LET u == memberIds[k]
                e == EntryOf(calc.output.standings, u)
                side == league_fixture_participants["f1"][u]
                inFixture == FixtureCounts("f1") /\ side # Null
            IN  CASE leagues.scoring_format \in {"singles", "doubles"} ->
                        /\ e.played = (IF inFixture THEN 1 ELSE 0)
                        /\ e.wins = (IF inFixture /\ side = WinningSide("f1")
                                     THEN 1 ELSE 0)
                        /\ e.losses = (IF inFixture /\ side # WinningSide("f1")
                                       THEN 1 ELSE 0)
                        /\ e.totalTime = 0
                  [] OTHER ->
                        /\ e.played = Cardinality(CountedRuns(u))
                        /\ e.wins = 0
                        /\ e.losses = 0
                        /\ e.totalTime =
                              (IF CountedRuns(u) = {} THEN 0
                               ELSE session_runs[CHOOSE i \in CountedRuns(u) : TRUE]
                                        .elapsed_seconds)

\* standings have been read while a disputed fixture still carried a final
\* result, a1's run was finalized and a2's was only approved
C13_Witness ==
    /\ calc.fn = "loadLeagueStandings"
    /\ league_fixtures["f1"].status = "disputed"
    /\ league_fixtures["f1"].metadata.final_result = "A_wins"
    /\ leagues.scoring_format = "individual_time"
    /\ CountedRuns("a1") # {}
    /\ \E i \in DOMAIN session_runs :
          session_runs[i].user_id = "a2" /\ session_runs[i].status = "approved"
    /\ EntryOf(calc.output.standings, "a1").played = 1
    /\ EntryOf(calc.output.standings, "a2").played = 0

(***************************************************************************)
(* Properties of the schedule generators.                                  *)
(***************************************************************************)
WeekFixtures(schedule, week) == SelectSeq(schedule, LAMBDA f : f.weekNumber = week)

PlayersOf(fixture) == Range(fixture.sideA) \cup Range(fixture.sideB)

CountIn(seq, u) == Cardinality({i \in DOMAIN seq : seq[i] = u})

\* the number of places u takes in the fixtures
Appearances(fixtures, u) ==
    SumSeq([i \in DOMAIN fixtures |->
               CountIn(fixtures[i].sideA, u) + CountIn(fixtures[i].sideB, u)])

SittingOut(fixtures, roster) ==
    {u \in Range(roster) : Appearances(fixtures, u) = 0}

\* C14: for an even roster of n members, the singles schedule of n - 1 weeks
\* holds each unordered pair of members in exactly one fixture of weeks
\* 1..n-1, every fixture has one player per side, and BYE is on no side.
C14_SinglesRoundRobin ==
    (/\ calc.fn = "generateSinglesSchedule"
     /\ Len(calc.memberIds) % 2 = 0
     /\ calc.weeks = Len(calc.memberIds) - 1) =>
        /\ \A i \in DOMAIN calc.output :
              /\ Len(calc.output[i].sideA) = 1
              /\ Len(calc.output[i].sideB) = 1
              /\ BYE \notin PlayersOf(calc.output[i])
              /\ calc.output[i].weekNumber \in 1..(Len(calc.memberIds) - 1)
        /\ \A a, b \in Range(calc.memberIds) :
              a # b =>
                 Cardinality({i \in DOMAIN calc.output :
                                 PlayersOf(calc.output[i]) = {a, b}}) = 1

\* six members, five weeks: fifteen fixtures
C14_Witness ==
    /\ calc.fn = "generateSinglesSchedule"
    /\ Len(calc.memberIds) = 6
    /\ calc.weeks = 5
    /\ Len(calc.output) = 15

\* C15: for an odd roster of n >= 3 members, every week of the singles
\* schedule has (n - 1) / 2 fixtures, no member is in two fixtures of the
\* week, and exactly one member sits out.
C15_OddRosterWeeks ==
    (/\ calc.fn = "generateSinglesSchedule"
     /\ Len(calc.memberIds) % 2 = 1
     /\ Len(calc.memberIds) >= 3) =>
        \A week \in 1..calc.weeks :
            LET fixtures == WeekFixtures(calc.output, week) IN
            /\ Len(fixtures) = (Len(calc.memberIds) - 1) \div 2
            /\ \A u \in Range(calc.memberIds) : Appearances(fixtures, u) <= 1
            /\ Cardinality(SittingOut(fixtures, calc.memberIds)) = 1

\* five members, five weeks: two fixtures a week, and the member sitting out
\* in week 1 is not the one sitting out in week 2
C15_Witness ==
    /\ calc.fn = "generateSinglesSchedule"
    /\ Len(calc.memberIds) = 5
    /\ calc.weeks = 5
    /\ Len(calc.output) = 10
    /\ SittingOut(WeekFixtures(calc.output, 1), calc.memberIds)
          # SittingOut(WeekFixtures(calc.output, 2), calc.memberIds)

PairSets(fixedTeams) == {{fixedTeams[i][1], fixedTeams[i][2]} : i \in DOMAIN fixedTeams}

IsConfiguredPair(side, fixedTeams) ==
    /\ Len(side) = 2
    /\ Range(side) \in PairSets(fixedTeams)

\* C16: with two or more fixed pairs, every side of every fixture of the
\* assigned doubles schedule is one of the configured pairs, the two sides of
\* a fixture are different pairs, and no side holds members of two pairs.
C16_AssignedKeepsPairs ==
    (/\ calc.fn = "generateDoublesAssignedSchedule"
     /\ Len(calc.fixedTeams) >= 2) =>
        \A i \in DOMAIN calc.output :
            LET f == calc.output[i] IN
            /\ IsConfiguredPair(f.sideA, calc.fixedTeams)
            /\ IsConfiguredPair(f.sideB, calc.fixedTeams)
            /\ Range(f.sideA) # Range(f.sideB)
            /\ \A p \in PairSets(calc.fixedTeams) :
                  /\ Range(f.sideA) \cap p # {} => Range(f.sideA) = p
                  /\ Range(f.sideB) \cap p # {} => Range(f.sideB) = p

\* three pairs that are not consecutive members of the roster, three weeks:
\* one fixture a week, the third pair meets BYE
C16_Witness ==
    /\ calc.fn = "generateDoublesAssignedSchedule"
    /\ Len(calc.fixedTeams) = 3
    /\ calc.fixedTeams[1] = <<"u6", "u1">>
    /\ calc.weeks = 3
    /\ Len(calc.output) = 3

\* C17: every week of the random doubles schedule has floor(n / 4) fixtures
\* of two players per side, no member is twice in a week, n mod 4 members sit
\* out, and when 4 divides n every member plays exactly once in the week.
C17_RandomDoublesWeeks ==
    calc.fn = "generateDoublesRandomSchedule" =>
        \A week \in 1..calc.weeks :
            LET fixtures == WeekFixtures(calc.output, week)
                n == Len(calc.memberIds)
            IN  /\ Len(fixtures) = n \div 4
                /\ \A i \in DOMAIN fixtures :
                      /\ Len(fixtures[i].sideA) = 2
                      /\ Len(fixtures[i].sideB) = 2
                      /\ PlayersOf(fixtures[i]) \subseteq Range(calc.memberIds)
                /\ \A u \in Range(calc.memberIds) : Appearances(fixtures, u) <= 1
                /\ Cardinality(SittingOut(fixtures, calc.memberIds)) = n % 4
                /\ n % 4 = 0 =>
                      \A u \in Range(calc.memberIds) : Appearances(fixtures, u) = 1

\* eight members shuffled out of roster order: two fixtures, nobody sits out
C17_Witness ==
    /\ calc.fn = "generateDoublesRandomSchedule"
    /\ Len(calc.memberIds) = 8
    /\ Len(calc.output) = 2
    /\ calc.output[1].sideA = <<"u5", "u2">>
    /\ SittingOut(calc.output, calc.memberIds) = {}

(***************************************************************************)
(* Properties of calculateStandings and calculateTeamStandings.            *)
(***************************************************************************)
\* the completed matches with a recorded winner, by index
DecidedIndexes(matches) ==
    {i \in DOMAIN matches : matches[i].status = "completed" /\ matches[i].winner # Null}

OnTeam(participants, match, u, team) ==
    \E k \in DOMAIN participants :
        /\ participants[k].match_id = match.id
        /\ participants[k].user_id = u
        /\ participants[k].team = team

OtherTeam(team) == IF team = "A" THEN "B" ELSE "A"

WonBy(matches, participants, u) ==
    {i \in DecidedIndexes(matches) :
        OnTeam(participants, matches[i], u, matches[i].winner)}

LostBy(matches, participants, u) ==
    {i \in DecidedIndexes(matches) :
        OnTeam(participants, matches[i], u, OtherTeam(matches[i].winner))}

\* a is not after b: more wins, then fewer losses, then more played
WinOrderOk(a, b) ==
    \/ a.wins > b.wins
    \/ a.wins = b.wins /\ a.losses < b.losses
    \/ a.wins = b.wins /\ a.losses = b.losses /\ a.played >= b.played

\* C18: for singles and doubles every member has an entry whose wins and
\* losses are the numbers of completed matches with a recorded winner that
\* the member won and lost, played is their sum, the entries are ordered by
\* wins descending, losses ascending, played descending, and rank is the
\* 1-based position.
C18_WinLossStandings ==
    (/\ calc.fn = "calculateStandings"
     /\ calc.scoringFormat \in {"singles", "doubles"}) =>
        /\ \A k \in DOMAIN calc.members :
              \E i \in DOMAIN calc.output : calc.output[i].user_id = calc.members[k]
        /\ \A i \in DOMAIN calc.output :
              LET e == calc.output[i] IN
              /\ e.wins = Cardinality(WonBy(calc.matches, calc.participants, e.user_id))
              /\ e.losses = Cardinality(LostBy(calc.matches, calc.participants, e.user_id))
              /\ e.played = e.wins + e.losses
              /\ e.rank = i
        /\ \A i, j \in DOMAIN calc.output :
              i < j => WinOrderOk(calc.output[i], calc.output[j])

\* doubles, two decided matches: a1 won both with different partners, a2 and
\* b1 won one and lost one, and m, who is no member, lost both and is last
C18_Witness ==
    /\ calc.fn = "calculateStandings"
    /\ calc.scoringFormat = "doubles"
    /\ calc.output[1].user_id = "a1" /\ calc.output[1].wins = 2
    /\ calc.output[2].wins = 1 /\ calc.output[2].losses = 1
    /\ calc.output[3].wins = 1 /\ calc.output[3].losses = 1
    /\ calc.output[4].user_id = "m" /\ calc.output[4].losses = 2
    /\ calc.output[4].rank = 4

\* the rows of u that carry an elapsed time, in completed matches
TimedRowsOf(matches, participants, u) ==
    SelectSeq(participants,
              LAMBDA p : /\ p.user_id = u
                         /\ p.time_seconds # NoTime
                         /\ \E i \in DOMAIN matches :
                               matches[i].id = p.match_id /\ matches[i].status = "completed")

TimeOfRows(rows) == SumSeq([k \in DOMAIN rows |-> rows[k].time_seconds])

\* C19: for individual_time in absolute_performance mode a member's totalTime
\* is the sum of the elapsed times of the member's rows in completed matches,
\* members with such a row are ordered by ascending totalTime, and every
\* member with none stands after every member with one.
C19_AbsoluteTimeStandings ==
    (/\ calc.fn = "calculateStandings"
     /\ calc.scoringFormat = "individual_time") =>
        /\ \A k \in DOMAIN calc.members :
              \E i \in DOMAIN calc.output : calc.output[i].user_id = calc.members[k]
        /\ \A i \in DOMAIN calc.output :
              calc.output[i].totalTime =
                  TimeOfRows(TimedRowsOf(calc.matches, calc.participants,
                                         calc.output[i].user_id))
        /\ \A i, j \in DOMAIN calc.output :
              LET ri == TimedRowsOf(calc.matches, calc.participants, calc.output[i].user_id)
                  rj == TimedRowsOf(calc.matches, calc.participants, calc.output[j].user_id)
              IN  i < j =>
                    /\ (ri # <<>> /\ rj # <<>>) => TimeOfRows(ri) <= TimeOfRows(rj)
                    /\ ri = <<>> => rj = <<>>

\* a2 ran once in 2 seconds, a1 twice in 1 and 2 seconds, b1 has a row
\* without a time: a2, a1, b1
C19_Witness ==
    /\ calc.fn = "calculateStandings"
    /\ calc.scoringFormat = "individual_time"
    /\ calc.runningComparisonMode = Absent
    /\ \E k \in DOMAIN calc.participants : calc.participants[k].user_id = "b1"
    /\ calc.output[1].user_id = "a2" /\ calc.output[1].totalTime = 2
    /\ calc.output[2].user_id = "a1" /\ calc.output[2].totalTime = 3
    /\ calc.output[3].user_id = "b1" /\ calc.output[3].totalTime = 0

\* the members of a side of a match
SideSet(participants, match, team) ==
    {u \in Range(userIds(participants)) : OnTeam(participants, match, u, team)}

\* the decided matches in which the pair formed a side, won, lost
FormedBy(matches, participants, pair) ==
    {i \in DecidedIndexes(matches) :
        \E team \in {"A", "B"} : SideSet(participants, matches[i], team) = pair}

WonByPair(matches, participants, pair) ==
    {i \in DecidedIndexes(matches) :
        SideSet(participants, matches[i], matches[i].winner) = pair}

\* C20: calculateTeamStandings has an entry for a side only if the side has
\* exactly two members, keyed by the two ids sorted and joined; the pair's
\* played, wins and losses are the numbers of completed matches with a
\* recorded winner in which the pair formed a side, won and lost, and winPct
\* is round(wins / played x 100).
C20_TeamEntriesArePairs ==
    calc.fn = "calculateTeamStandings" =>
        \A i \in DOMAIN calc.output :
            LET e == calc.output[i]
                pair == Range(e.player_ids)
                played == Cardinality(FormedBy(calc.matches, calc.participants, pair))
                wins == Cardinality(WonByPair(calc.matches, calc.participants, pair))
            IN  /\ Len(e.player_ids) = 2
                /\ e.team_key = joinIds(sortIds(e.player_ids))
                /\ e.played = played
                /\ e.wins = wins
                /\ e.losses = played - wins
                /\ 2 * e.winPct * played <= 200 * wins + played
                /\ 200 * wins + played < 2 * (e.winPct + 1) * played

(***************************************************************************)
(* Properties of the guards of the handlers.                               *)
(***************************************************************************)
\* the draws a generateSchedule request of the league may meet
GenRandoms ==
    IF shuffles(leagues)
    THEN [1..seasonWeeksOf(leagues) -> RouteDraws(Len(leagues.member_ids) - 1)]
    ELSE {<<>>}

Rejected(o, code) == o.req.status = code /\ o.store = Store

\* C21: resolveResult, reviewRun, finalizeSession and generateSchedule, called
\* by a user whose league role is neither owner nor admin (a plain member or
\* a non-member), answer 403 and leave every fixture, submission, run and
\* session as it was.
C21_NonAdminRejected ==
    \A u \in Users :
        ~IsOrganizer(u)
        => /\ \A f \in DOMAIN league_fixtures :
                 /\ Rejected(RunAll(Store, NewReq("resolve", u, f, "A_wins", 0, Null)), 403)
                 /\ Rejected(RunAll(Store, NewReq("resolve", u, f, EmptyPayload, 1, Null)),
                             403)
           /\ \A sid \in DOMAIN running_sessions :
                 /\ \A d \in {"approve", "reject"} :
                       Rejected(RunAll(Store, [RunReq("reviewRun", u, sid) EXCEPT
                                                  !.runId = 1, !.decision = d]), 403)
                 /\ Rejected(RunAll(Store, RunReq("finalizeSession", u, sid)), 403)
           /\ \A randoms \in GenRandoms :
                 Rejected(generateSchedule(Store, GenReq(u, 0, randoms)), 403)

\* the schedule of a running league exists; a plain member has just asked to
\* generate it again, and asks to finalize a session and to resolve a fixture
C21_Witness ==
    /\ last.op = "generateSchedule"
    /\ last.status = 403
    /\ last.userId = "a1"
    /\ "s1" \in DOMAIN running_sessions
    /\ \E f \in DOMAIN league_fixtures :
          /\ league_fixtures[f].status = "scheduled"
          /\ RunAll(Store, NewReq("resolve", "a1", f, "A_wins", 0, Null)).req.status = 403
    /\ RunAll(Store, RunReq("finalizeSession", "a1", "s1")).req.status = 403

\* the requests that inserted the league's fixtures that are not cancelled
GenerationRuns ==
    {league_fixtures[f].request :
        f \in {g \in DOMAIN league_fixtures : league_fixtures[g].status # "cancelled"}}

\* C22: a generateSchedule call that finds a fixture of the league that is
\* not cancelled answers 409 and creates nothing, and once the
\* generateSchedule calls in flight have all answered, the league's fixtures
\* are those of at most one of them.
C22_OneGenerationRun ==
    /\ \A u \in Users, randoms \in GenRandoms :
          (IsOrganizer(u) /\ existingFixtures(Store) > 0)
          => Rejected(generateSchedule(Store, GenReq(u, 0, randoms)), 409)
    /\ (\A i \in Slots : reqs[i] = Idle) => Cardinality(GenerationRuns) <= 1

(***************************************************************************)
(* Properties of getConfiguredFixedPairs.                                  *)
(***************************************************************************)
\* entry is an array of two non-empty strings, not the same, both members
IsMemberPair(entry, members) ==
    /\ entry.isArray
    /\ Len(entry.items) = 2
    /\ \A k \in 1..2 : entry.items[k].type = "string" /\ entry.items[k].value # ""
    /\ entry.items[1].value # entry.items[2].value
    /\ \A k \in 1..2 : entry.items[k].value \in members

\* the strictly increasing maps from the places of out to the places of in
Increasing(m, n) ==
    {idx \in [1..m -> 1..n] : \A j, k \in 1..m : j < k => idx[j] < idx[k]}

\* C23: for every rules blob and member set, the pairs returned by
\* getConfiguredFixedPairs are pairwise disjoint, each pair has two distinct
\* ids that are both members, and the pairs are entries of the input in
\* input order: the entries left out are the malformed, self-paired and
\* non-member ones and those that reuse an id of a pair kept before them.
C23_FixedPairsDisjoint ==
    (calc.fn = "getConfiguredFixedPairs")
    => LET out == calc.output
           members == calc.validMemberIds
           entries == IF calc.fixed_pairs.isArray THEN calc.fixed_pairs.items ELSE <<>>
       IN  /\ \A k \in DOMAIN out :
                 /\ Len(out[k]) = 2
                 /\ out[k][1] # out[k][2]
                 /\ out[k][1] \in members /\ out[k][2] \in members
           /\ \A j, k \in DOMAIN out :
                 j # k => Range(out[j]) \cap Range(out[k]) = {}
           /\ \E idx \in Increasing(Len(out), Len(entries)) :
                 /\ \A k \in DOMAIN out : entries[idx[k]] = PairEntry(out[k][1], out[k][2])
                 /\ \A i \in DOMAIN entries :
                       (\A k \in DOMAIN out : idx[k] # i)
                       => \/ ~IsMemberPair(entries[i], members)
                          \/ \E k \in DOMAIN out :
                                /\ idx[k] < i
                                /\ Range(out[k]) \cap
                                      {entries[i].items[1].value, entries[i].items[2].value} # {}

\* u1+u2 is kept, u2+u3 reuses u2 and is left out, u3+u4 is kept after it
C23_Witness ==
    /\ calc.fn = "getConfiguredFixedPairs"
    /\ calc.fixed_pairs =
          JsonArray(<<PairEntry("u1", "u2"), PairEntry("u2", "u3"), PairEntry("u3", "u4")>>)
    /\ calc.validMemberIds = {"u1", "u2", "u3", "u4"}
    /\ calc.output = << <<"u1", "u2">>, <<"u3", "u4">> >>

\* the store once fixture f has been cancelled (no route cancels a fixture:
\* the status is written to the row from outside)
Cancelled(s, f) == [s EXCEPT !.league_fixtures[f].status = "cancelled"]

RejectedFrom(s, o, code) == o.req.status = code /\ o.store = s

\* C24: a submit against a finalized or cancelled fixture answers 400 and
\* writes nothing: no submission is inserted or superseded and the fixture
\* keeps its status and metadata.
C24_SubmitOnTerminalRejected ==
    \A u \in Users, f \in MatchFixtures, p \in Payloads :
        /\ league_fixtures[f].status \in TerminalStatuses
              => Rejected(RunAll(Store, NewReq("submit", u, f, p, 0, Null)), 400)
        /\ RejectedFrom(Cancelled(Store, f),
                        RunAll(Cancelled(Store, f), NewReq("submit", u, f, p, 0, Null)),
                        400)

\* the owner's submit has finalized the fixture while a1's submission is
\* pending; a1 submits again
C24_Witness ==
    /\ last.op = "submit"
    /\ last.finalized
    /\ league_fixtures["f1"].status = "finalized"
    /\ \E i \in DOMAIN result_submissions :
          /\ result_submissions[i].submitted_by = "a1"
          /\ result_submissions[i].status = "pending"
    /\ RunAll(Store, NewReq("submit", "a1", "f1", "B_wins", 0, Null)).req.status = 400

\* C25: a resolve against a fixture that is already finalized or cancelled
\* is rejected (a 4xx answer) and leaves the fixture's status and metadata
\* and every submission as they were.
C25_ResolveOnTerminalRejected ==
    \A u \in Users, f \in MatchFixtures, id \in SubmissionIds, p \in AllPayloads :
        LET o == RunAll(Store, NewReq("resolve", u, f, p, id, Null))
        IN  league_fixtures[f].status \in TerminalStatuses
            => /\ o.req.status \in 400..499
               /\ o.store.league_fixtures[f] = league_fixtures[f]
               /\ o.store.result_submissions = result_submissions

\* C26: a confirm vote of a league owner or admin on a pending submission
\* that is not their own finalizes in that call, whatever votes exist: the
\* submission becomes accepted, the fixture finalized with
\* metadata.final_result = the submission's payload, and the call reports
\* finalized = true.
C26_OrganizerConfirmFinalizes ==
    \A u \in Users, f \in MatchFixtures, id \in DOMAIN result_submissions :
        LET sub == result_submissions[id]
            o == RunAll(Store, NewReq("confirm", u, f, EmptyPayload, id, "confirm"))
        IN  ( /\ IsOrganizer(u)
              /\ sub.fixture_id = f
              /\ sub.status = "pending"
              /\ sub.submitted_by # u )
            => /\ o.req.status = 200
               /\ o.req.finalized
               /\ o.store.result_submissions[id].status = "accepted"
               /\ o.store.league_fixtures[f].status = "finalized"
               /\ o.store.league_fixtures[f].metadata.final_result = sub.payload

\* a1's submission had the vote of the partner a2 only; the owner's vote
\* has accepted it
C26_Witness ==
    /\ last.op = "confirm"
    /\ last.userId = "o"
    /\ last.finalized
    /\ result_submissions[last.submissionId].submitted_by = "a1"
    /\ result_submissions[last.submissionId].status = "accepted"
    /\ league_fixtures[last.fixtureId].status = "finalized"
    /\ league_fixtures[last.fixtureId].metadata.final_result
          = result_submissions[last.submissionId].payload
    /\ {c.confirming_side : c \in ConfirmVotes(last.submissionId)} = {"A", "organizer"}

\* a pending submission of fixture f whose author is a member with no
\* participant row, and a participant who is not an organizer votes confirm
OutsiderSubmissionVote(u, f, id) ==
    /\ result_submissions[id].fixture_id = f
    /\ result_submissions[id].status = "pending"
    /\ result_submissions[id].source = "participant"
    /\ SideOf(f, result_submissions[id].submitted_by) = Null
    /\ ~IsOrganizer(u)
    /\ SideOf(f, u) \in {"A", "B"}

SidesWith(u, f, id) ==
    {c.confirming_side : c \in ConfirmVotes(id)} \cup {SideOf(f, u)}

\* C27 (as stated): when the author of a pending submission has no
\* participant row, a participant's confirm vote finalizes only once confirm
\* votes of both side A and side B exist for the submission; a vote that
\* leaves one side only leaves the submission pending and moves the fixture
\* to confirmed.
C27_BothSidesOrConfirmed ==
    \A u \in Users, f \in MatchFixtures, id \in DOMAIN result_submissions :
        LET o == RunAll(Store, NewReq("confirm", u, f, EmptyPayload, id, "confirm"))
        IN  OutsiderSubmissionVote(u, f, id)
            => /\ o.req.status = 200
               /\ o.req.finalized <=> {"A", "B"} \subseteq SidesWith(u, f, id)
               /\ o.req.finalized
                     => /\ o.store.result_submissions[id].status = "accepted"
                        /\ o.store.league_fixtures[f].status = "finalized"
               /\ ~o.req.finalized
                     => /\ o.store.result_submissions[id].status = "pending"
                        /\ o.store.league_fixtures[f].status = "confirmed"

\* C27 (amended): the same, but a vote that leaves one side only moves the
\* fixture to confirmed from submitted or confirmed, and leaves a fixture in
\* any other status (disputed, finalized) as it is.
C27_BothSidesOrConfirmedFromSubmitted ==
    \A u \in Users, f \in MatchFixtures, id \in DOMAIN result_submissions :
        LET o == RunAll(Store, NewReq("confirm", u, f, EmptyPayload, id, "confirm"))
            old == league_fixtures[f].status
        IN  OutsiderSubmissionVote(u, f, id)
            => /\ o.req.status = 200
               /\ o.req.finalized <=> {"A", "B"} \subseteq SidesWith(u, f, id)
               /\ o.req.finalized
                     => /\ o.store.result_submissions[id].status = "accepted"
                        /\ o.store.league_fixtures[f].status = "finalized"
               /\ ~o.req.finalized
                     => /\ o.store.result_submissions[id].status = "pending"
                        /\ o.store.league_fixtures[f].status =
                              IF old \in {"submitted", "confirmed"} THEN "confirmed"
                              ELSE old

\* m's submission, confirmed by a1 (side A) and then accepted by b1's vote
C27_Witness ==
    /\ last.op = "confirm"
    /\ last.userId = "b1"
    /\ last.finalized
    /\ result_submissions[last.submissionId].submitted_by = "m"
    /\ result_submissions[last.submissionId].status = "accepted"
    /\ league_fixtures[last.fixtureId].status = "finalized"
    /\ {c.confirming_side : c \in ConfirmVotes(last.submissionId)} = {"A", "B"}

\* C28: a confirm call (either decision) by the submission's own author, or
\* by a member who is no owner or admin and has no participant row, is
\* rejected and writes nothing (no confirmation row, no status changed); no
\* confirmation row ever has the author of its submission as its voter.
C28_AuthorAndOutsiderRejected ==
    /\ \A u \in Users, f \in MatchFixtures, id \in DOMAIN result_submissions,
          d \in {"confirm", "reject"} :
          LET o == RunAll(Store, NewReq("confirm", u, f, EmptyPayload, id, d))
          IN  ( /\ result_submissions[id].fixture_id = f
                /\ \/ result_submissions[id].submitted_by = u
                   \/ league_members[u] = "member" /\ SideOf(f, u) = Null )
              => /\ o.req.status \in {400, 403}
                 /\ o.store = Store
    /\ \A c \in result_confirmations :
          c.confirmed_by # result_submissions[c.submission_id].submitted_by

\* a1's pending submission has the vote of a2; a1 and the member m, who
\* plays on no side, ask to vote on it
C28_Witness ==
    /\ last.op = "confirm"
    /\ last.userId = "a2"
    /\ result_submissions[last.submissionId].submitted_by = "a1"
    /\ result_submissions[last.submissionId].status = "pending"
    /\ ConfirmVotes(last.submissionId) # {}
    /\ RunAll(Store, NewReq("confirm", "a1", last.fixtureId, EmptyPayload,
                            last.submissionId, "confirm")).req.status = 400
    /\ RunAll(Store, NewReq("confirm", "m", last.fixtureId, EmptyPayload,
                            last.submissionId, "confirm")).req.status = 403

\* a confirm call that names a submission that is not pending is rejected
\* and writes nothing
NotPendingRejected ==
    \A u \in Users, f \in MatchFixtures, id \in DOMAIN result_submissions,
       d \in {"confirm", "reject"} :
        ( /\ result_submissions[id].fixture_id = f
          /\ result_submissions[id].status # "pending" )
        => LET o == RunAll(Store, NewReq("confirm", u, f, EmptyPayload, id, d))
           IN  o.req.status \in 400..499 /\ o.store = Store

\* a vote has accepted or rejected the submission
ClosedByVote(id) ==
    /\ result_submissions[id].status \in {"accepted", "rejected"}
    /\ \E c \in result_confirmations :
          /\ c.submission_id = id
          /\ c.confirmed_by = result_submissions[id].reviewed_by

\* no vote is added to the ledger for a submission that a vote has closed
NoVoteAfterClosing ==
    \A c \in result_confirmations' \ result_confirmations :
        ~ClosedByVote(c.submission_id)

\* C29: a confirm call that names a submission whose status is not pending
\* is rejected and leaves the submission, the confirmation ledger and the
\* fixture as they were, also when two confirm calls for the same submission
\* are in flight together: the second one adds no vote to a submission the
\* first one has accepted or rejected.
C29_NotPendingNoVote ==
    []NotPendingRejected /\ [][NoVoteAfterClosing]_vars

\* the store of a league that has a second league_match fixture, of week 2
SecondFixture == "f2"

WithSecondFixture(s) ==
    [s EXCEPT !.league_fixtures =
        [f \in DOMAIN s.league_fixtures \cup {SecondFixture} |->
            IF f = SecondFixture THEN ScheduledFixture("league_match", 2)
            ELSE s.league_fixtures[f]]]

\* C30: a resolve call with neither a submission id nor a non-empty payload,
\* or with a submission id that is not the id of a submission of the
\* fixture (no such row, or a row of another fixture), is rejected and
\* changes no submission and neither the fixture's status nor its metadata.
C30_ResolveFailsClosed ==
    \A u \in Users, f \in MatchFixtures :
        /\ Rejected(RunAll(Store, NewReq("resolve", u, f, EmptyPayload, 0, Null)),
                    IF IsOrganizer(u) THEN 400 ELSE 403)
        /\ \A p \in AllPayloads :
              LET unknown == Len(result_submissions) + 1
                  o == RunAll(Store, NewReq("resolve", u, f, p, unknown, Null))
              IN  Rejected(o, IF IsOrganizer(u) THEN 404 ELSE 403)
        /\ \A id \in DOMAIN result_submissions, p \in AllPayloads :
              LET s == WithSecondFixture(Store)
                  o == RunAll(s, NewReq("resolve", u, SecondFixture, p, id, Null))
              IN  RejectedFrom(s, o, IF IsOrganizer(u) THEN 404 ELSE 403)

\* b1's reject has left the fixture disputed; the owner asks to resolve it
\* with nothing, and with the id of a submission that does not exist
C30_Witness ==
    /\ last.op = "confirm"
    /\ last.disputed
    /\ league_fixtures[last.fixtureId].status = "disputed"
    /\ RunAll(Store, NewReq("resolve", "o", last.fixtureId, EmptyPayload, 0, Null))
          .req.status = 400
    /\ RunAll(Store, NewReq("resolve", "o", last.fixtureId, "A_wins",
                            Len(result_submissions) + 1, Null)).req.status = 404
    /\ RunAll(WithSecondFixture(Store),
              NewReq("resolve", "o", SecondFixture, EmptyPayload,
                     last.submissionId, Null)).req.status = 404
\* C31: a successful submit by a member who is not owner or admin appends one
\* submission with status pending, moves a scheduled fixture to submitted and
\* leaves a submitted, confirmed or disputed fixture's status as it was; the
\* fixture's metadata, every other fixture, every other user's submission,
\* the votes, sessions and runs are unchanged.  The caller's own rows change
\* only from pending to superseded.
C31_MemberSubmitFrame ==
    \A u \in Users, f \in MatchFixtures, p \in Payloads :
        LET o == RunAll(Store, NewReq("submit", u, f, p, 0, Null))
            old == result_submissions
            new == o.store.result_submissions
            before == league_fixtures[f]
            after == o.store.league_fixtures[f]
        IN  (o.req.status = 200 /\ ~IsOrganizer(u))
            => /\ Len(new) = Len(old) + 1
               /\ new[Len(new)].status = "pending"
               /\ new[Len(new)].submitted_by = u
               /\ new[Len(new)].fixture_id = f
               /\ new[Len(new)].payload = p
               /\ ~o.req.finalized
               /\ \A i \in DOMAIN old :
                     \/ new[i] = old[i]
                     \/ /\ old[i].submitted_by = u
                        /\ old[i].fixture_id = f
                        /\ old[i].status = "pending"
                        /\ new[i] = [old[i] EXCEPT !.status = "superseded"]
               /\ after.status = IF before.status = "scheduled"
                                 THEN "submitted" ELSE before.status
               /\ before.status \in {"scheduled", "submitted", "confirmed", "disputed"}
               /\ after = [before EXCEPT !.status = after.status]
               /\ \A g \in DOMAIN league_fixtures \ {f} :
                     o.store.league_fixtures[g] = league_fixtures[g]
               /\ o.store.result_confirmations = result_confirmations
               /\ o.store.running_sessions = running_sessions
               /\ o.store.session_runs = session_runs
               /\ o.store.leagues = leagues

\* b1 has submitted on a fixture that a1's rejected submission left disputed:
\* the fixture is still disputed and a1's row is untouched
C31_Witness ==
    /\ last.op = "submit"
    /\ last.status = 200
    /\ ~IsOrganizer(last.userId)
    /\ league_fixtures[last.fixtureId].status = "disputed"
    /\ result_submissions[last.submissionId].status = "pending"
    /\ \E i \in DOMAIN result_submissions :
          /\ result_submissions[i].submitted_by # last.userId
          /\ result_submissions[i].fixture_id = last.fixtureId
          /\ result_submissions[i].status = "rejected"
\* the paired fixture's best time is the least time of the finalized runs
BestIsMinOfFinalized(s) ==
    \A f \in TrialFixturesOfWeek(s, s.running_sessions["s1"].week_number) :
        s.league_fixtures[f].metadata.best_elapsed_seconds =
            bestElapsedSeconds({s.session_runs[v] :
                                   v \in FinalizedRunsOf(s.session_runs)})

\* the calls that may follow a finalization
CallsAfterFinalize ==
    {FinalizeReq(u) : u \in Users}
    \cup {[RunReq("reviewRun", u, "s1") EXCEPT !.runId = run, !.decision = d] :
            u \in Users, run \in DOMAIN session_runs, d \in {"approve", "reject"}}
    \cup {[RunReq("submitRun", u, "s1") EXCEPT
              !.elapsedSeconds = e, !.distanceMeters = 1, !.deadlinePassed = FALSE] :
            u \in RunUsers, e \in ElapsedValues}

\* C32: once a session has been finalized, the paired time-trial fixture's
\* metadata.best_elapsed_seconds is the least elapsed time of the session's
\* finalized runs, right after the finalization and after any submitRun,
\* reviewRun or finalizeSession call that follows it.
C32_BestElapsedIsMinFinalized ==
    \A u \in Users :
        LET o1 == RunAll(Store, FinalizeReq(u)) IN
        ( /\ "s1" \in DOMAIN running_sessions
          /\ running_sessions["s1"].status # "finalized"
          /\ FinalizedRunsOf(session_runs) = {}
          /\ o1.req.status = 200 )
        => /\ BestIsMinOfFinalized(o1.store)
           /\ \A r2 \in CallsAfterFinalize :
                 LET o2 == RunAll(o1.store, r2) IN
                 o2.req.status = 200 => BestIsMinOfFinalized(o2.store)
(***************************************************************************)
(* SpecRunsConc: the session routes of a running league with requests in   *)
(* flight together.  The session s1 and its fixture t1 exist; a request    *)
(* performs one store operation per step.                                  *)
(***************************************************************************)
RunConcUsers == {"a1", "a2"}
RunConcElapsed == {1, 2}

InitRunsConc ==
    /\ leagues \in [sport_type : {"running"}, require_organizer_approval : BOOLEAN]
    /\ league_fixtures =
          [f \in {TrialFixture} |-> ScheduledFixture("time_trial_session", 1)]
    /\ running_sessions =
          [x \in {"s1"} |->
              [status |-> "scheduled", week_number |-> 1, distance_meters |-> 2]]
    /\ result_submissions = <<>>
    /\ result_confirmations = {}
    /\ session_runs = <<>>
    /\ reqs = [i \in Slots |-> Idle]
    /\ last = NoResponse
    /\ calls = 0
    /\ calc = NoCalc

beginSubmitRun ==
    \E i \in Slots, u \in RunConcUsers, e \in RunConcElapsed :
        /\ Begin(i, [RunReq("submitRun", u, "s1") EXCEPT
                        !.elapsedSeconds = e, !.distanceMeters = 0,
                        !.deadlinePassed = FALSE])

beginReviewRun ==
    \E i \in Slots, run \in DOMAIN session_runs, d \in {"approve", "reject"} :
        /\ Begin(i, [RunReq("reviewRun", "o", "s1") EXCEPT
                        !.runId = run, !.decision = d])

beginFinalizeSession ==
    \E i \in Slots :
        /\ Begin(i, RunReq("finalizeSession", "o", "s1"))

\* the request in slot i performs its next store operation
stepRunRequest ==
    \E i \in Slots :
        /\ reqs[i] # Idle
        /\ LET o == Step(Store, reqs[i]) IN
            /\ Commit(o.store)
            /\ IF o.req.pc = "done"
               THEN /\ reqs' = [reqs EXCEPT ![i] = Idle]
                    /\ last' = Response(o.req)
               ELSE /\ reqs' = [reqs EXCEPT ![i] = o.req]
                    /\ UNCHANGED last
        /\ UNCHANGED <<calls, calc>>

NextRunsConc ==
    beginSubmitRun \/ beginReviewRun \/ beginFinalizeSession \/ stepRunRequest

SpecRunsConc == InitRunsConc /\ [][NextRunsConc]_vars
LockedSession(s) ==
    /\ "s1" \in DOMAIN s.running_sessions
    /\ s.running_sessions["s1"].status \in {"finalized", "closed"}

\* a submitRun request that arrives at a finalized or closed session is
\* answered 400 (403 for a caller who is no member) and writes nothing
SubmitRunOnLockedRejected ==
    LockedSession(Store) =>
        \A u \in Users, e \in ElapsedValues :
            LET o == RunAll(Store, [RunReq("submitRun", u, "s1") EXCEPT
                                       !.elapsedSeconds = e, !.distanceMeters = 0,
                                       !.deadlinePassed = FALSE])
            IN  Rejected(o, IF getLeagueRole(u) = Null THEN 403 ELSE 400)

\* a submitRun request in flight performs no write while the session is
\* finalized or closed
NoRunWriteOnLocked ==
    \A i \in DOMAIN reqs :
        ( /\ reqs[i].op = "submitRun"
          /\ reqs'[i] # reqs[i]
          /\ LockedSession(Store) )
        => /\ running_sessions' = running_sessions
           /\ session_runs' = session_runs
           /\ league_fixtures' = league_fixtures

\* C33: submitRun against a session whose status is finalized or closed is
\* rejected and leaves the session, its runs and the paired fixture
\* unchanged, also when the call is interleaved with a finalizeSession call
\* on the same session.
C33_SubmitRunOnLockedSession ==
    []SubmitRunOnLockedRejected /\ [][NoRunWriteOnLocked]_vars
\* the roster is too small for the league's format, or the league plays
\* assigned doubles and fewer than two of its configured pairs are valid
TooSmallForFormat(league) ==
    LET n == Len(league.member_ids) IN
    \/ league.scoring_format = "singles" /\ n < 2
    \/ league.scoring_format = "doubles" /\ n < 4
    \/ /\ league.scoring_format = "doubles"
       /\ league.rotation_type = "assigned" \/ league.doubles_partner_mode = "fixed_pairs"
       /\ Len(getConfiguredFixedPairs(league.fixed_pairs, Range(league.member_ids))) < 2

\* C34: generateSchedule, called by the owner for a league of a racket sport
\* whose roster is too small for its format (fewer than 2 members for
\* singles, fewer than 4 for doubles) or whose assigned doubles have fewer
\* than 2 valid configured pairs, answers with a validation error (400, or
\* 409 if the league already has a fixture) and creates no fixture,
\* participant row or session; it never answers 200.
C34_TooSmallIsValidationError ==
    \A randoms \in GenRandoms :
        LET o == generateSchedule(Store, GenReq("o", calls + 1, randoms)) IN
        (leagues.sport_type # "running" /\ TooSmallForFormat(leagues))
        => Rejected(o, IF existingFixtures(Store) > 0 THEN 409 ELSE 400)

\* the owner's request for a doubles league of three members was answered
\* 400 and the league has no generated fixture
C34_Witness ==
    /\ last.op = "generateSchedule"
    /\ last.userId = "o"
    /\ last.status = 400
    /\ leagues.scoring_format = "doubles"
    /\ Len(leagues.member_ids) = 3
    /\ existingFixtures(Store) = 0
    /\ running_sessions = <<>>
\* rules.schedule.season_weeks if it is set, else league.season_weeks.  The
\* route reads a count of 0 as one that is not set (0 || x is x), so the
\* counts that reach the generators as they are configured are the negative
\* ones.
ConfiguredWeeks(league) ==
    IF league.rule_weeks # 0 THEN league.rule_weeks ELSE league.season_weeks

\* C35: generateSchedule for a league whose configured week count is not
\* positive is rejected with a validation error before any store write and
\* never answers 200.
C35_NonPositiveWeeksRejected ==
    \A randoms \in GenRandoms :
        LET o == generateSchedule(Store, GenReq("o", calls + 1, randoms)) IN
        ConfiguredWeeks(leagues) < 0
        => /\ o.req.status \in {400, 409}
           /\ o.store = Store
\* the generated fixtures of a request
FixturesOfRequest(fx, request) ==
    {f \in DOMAIN fx : fx[f].request = request /\ fx[f].status # "cancelled"}

\* a league_match fixture has its participant rows, a time-trial fixture
\* has the session of its week
Completed(fx, sessions, f) ==
    IF fx[f].fixture_type = "league_match"
    THEN fx[f].sideA # <<>> /\ fx[f].sideB # <<>>
    ELSE SessionOfWeek(fx[f].week_number) \in DOMAIN sessions

\* a generateSchedule request answers 500 after the insert of the
\* participants or of the session has failed
FailedGeneration(i) ==
    /\ reqs[i].op = "generateSchedule"
    /\ reqs[i].pc \in {"insertParticipants", "insertSession"}
    /\ reqs'[i] = Idle
    /\ last'.status = 500
    /\ last'.request = reqs[i].request

MaxInviteCallers == 2      \* callers of ensureLeagueInviteCode in flight
MaxAttempts == 6           \* for (attempt = 0; attempt < 6; attempt += 1)

InviteCallers == 1..MaxInviteCallers
InviteCodes == {"K1", "K2"}            \* what generateInviteCode may return
NoCode == ""                           \* an invite_code that is the empty string

\* if (currentCode), data?.invite_code: neither null nor the empty string
hasCode(code) == code # Null /\ code # NoCode

InviteReq(pc, currentCode, attempt, result) ==
    [op |-> "ensureLeagueInviteCode", pc |-> pc, currentCode |-> currentCode,
     attempt |-> attempt, result |-> result]

\* (variant of conditionalUpdate: the write does not test the current code)
unconditionalUpdate(invite_code, candidate) ==
    [invite_code |-> candidate, data |-> candidate]

\* update({invite_code: candidate}).is('invite_code', null).select().single():
\* the row's new code and the row returned (null: no row matched)
conditionalUpdate(invite_code, candidate) ==
    IF invite_code = Null
    THEN [invite_code |-> candidate, data |-> candidate]
    ELSE [invite_code |-> invite_code, data |-> Null]

\* the route's getLeague, then the head of ensureLeagueInviteCode
ensure_getLeague(s, r) ==
    LET currentCode == s.leagues.invite_code IN
    IF hasCode(currentCode)
    THEN Out(s, InviteReq("returned", currentCode, 0, currentCode))
    ELSE Out(s, InviteReq("update", currentCode, 0, Null))

\* how the store may answer a write: with the row, with an error and no
\* write, or with an error after the write was made (the answer is lost)
StoreAnswers == {"row", "refused", "lost"}

\* one turn of the loop
ensure_update(s, r, candidate, answer) ==
    LET u == conditionalUpdate(s.leagues.invite_code, candidate) IN
    IF answer = "row" /\ hasCode(u.data)
    THEN Out([s EXCEPT !.leagues.invite_code = u.invite_code],
             [r EXCEPT !.pc = "returned", !.result = u.data])
    ELSE Out(IF answer = "refused" THEN s
             ELSE [s EXCEPT !.leagues.invite_code = u.invite_code],
             [r EXCEPT !.attempt = @ + 1,
                       !.pc = IF r.attempt + 1 < MaxAttempts THEN "update"
                              ELSE "reread"])

\* after the loop: the code is read again, or the call throws
ensure_reread(s, r) ==
    LET code == s.leagues.invite_code IN
    IF hasCode(code) THEN Out(s, [r EXCEPT !.pc = "returned", !.result = code])
    ELSE Out(s, [r EXCEPT !.pc = "thrown"])

InitInvite ==
    /\ leagues \in [invite_code : {Null, NoCode, "K0"}]
    /\ league_fixtures = <<>>
    /\ result_submissions = <<>>
    /\ result_confirmations = {}
    /\ running_sessions = <<>>
    /\ session_runs = <<>>
    /\ reqs = [i \in InviteCallers |-> InviteReq("getLeague", Null, 0, Null)]
    /\ last = NoResponse
    /\ calls = 0
    /\ calc = NoCalc

InviteStep(i, o) ==
    /\ Commit(o.store)
    /\ reqs' = [reqs EXCEPT ![i] = o.req]
    /\ UNCHANGED <<last, calls, calc>>

readLeagueCode(i) ==
    /\ reqs[i].pc = "getLeague"
    /\ InviteStep(i, ensure_getLeague(Store, reqs[i]))

tryInviteCode(i) ==
    /\ reqs[i].pc = "update"
    /\ \E candidate \in InviteCodes, answer \in StoreAnswers :
          InviteStep(i, ensure_update(Store, reqs[i], candidate, answer))

rereadInviteCode(i) ==
    /\ reqs[i].pc = "reread"
    /\ InviteStep(i, ensure_reread(Store, reqs[i]))

ensureLeagueInviteCode(i) ==
    readLeagueCode(i) \/ tryInviteCode(i) \/ rereadInviteCode(i)

NextInvite == \E i \in InviteCallers : ensureLeagueInviteCode(i)

SpecInvite == InitInvite /\ [][NextInvite]_vars

\* every call in flight goes on: the event loop resumes each pending await
SpecInviteFair ==
    SpecInvite /\ \A i \in InviteCallers : WF_vars(ensureLeagueInviteCode(i))

InviteDone(i) == reqs[i].pc \in {"returned", "thrown"}

\* attempts stay within the loop's bound and the callers that have returned
\* hold the league's code, the same for all
InviteResultsAgree ==
    \A i \in InviteCallers :
        /\ reqs[i].attempt <= MaxAttempts
        /\ reqs[i].pc = "update" => reqs[i].attempt < MaxAttempts
        /\ reqs[i].pc = "returned" =>
              /\ hasCode(reqs[i].result)
              /\ reqs[i].result = leagues.invite_code
              /\ \A j \in InviteCallers :
                    reqs[j].pc = "returned" => reqs[j].result = reqs[i].result

\* the code changes only from null to a code
InviteCodeWrittenOnce ==
    leagues'.invite_code # leagues.invite_code =>
        leagues.invite_code = Null /\ hasCode(leagues'.invite_code)

\* C37: ensureLeagueInviteCode writes a code only while the league has none
\* (a code once set is never overwritten), makes at most 6 write attempts
\* and then reads the code again, always terminates, and whatever the
\* interleaving of the callers of one league, all that return get the same
\* code.
C37_InviteCodeAssignedOnce ==
    /\ []InviteResultsAgree
    /\ [][InviteCodeWrittenOnce]_vars
    /\ <>(\A i \in InviteCallers : InviteDone(i))

\* one caller's write was refused by the store and its next attempt set the
\* code; the other caller lost every conditional write and read that code
C37_Witness ==
    /\ leagues.invite_code \in InviteCodes
    /\ \E i, j \in InviteCallers :
          /\ reqs[i].pc = "returned" /\ reqs[i].attempt = 1
          /\ reqs[j].pc = "returned" /\ reqs[j].attempt = MaxAttempts
          /\ reqs[j].result = reqs[i].result
\* C38: in every reachable state a fixture whose status is finalized has no
\* submission in status pending.
C38_FinalizedHasNoPending ==
    \A f \in DOMAIN league_fixtures :
        league_fixtures[f].status = "finalized"
        => SubmissionsOf(result_submissions, f, {"pending"}) = {}
\* C39: in every reachable state a league_match fixture whose status is
\* finalized has metadata.finalized_submission_id naming a submission of
\* that fixture whose status is accepted and whose payload is
\* metadata.final_result, also when finalizing confirm and resolve calls
\* are interleaved.
C39_FinalizedNamesAccepted ==
    \A f \in DOMAIN league_fixtures :
        LET fixture == league_fixtures[f]
            id == fixture.metadata.finalized_submission_id
        IN  (fixture.status = "finalized" /\ fixture.fixture_type = "league_match")
            => /\ id \in DOMAIN result_submissions
               /\ result_submissions[id].fixture_id = f
               /\ result_submissions[id].status = "accepted"
               /\ result_submissions[id].payload = fixture.metadata.final_result
\* C40: in every reachable state a session whose status is finalized has no
\* run in status approved.
C40_FinalizedHasNoApproved ==
    \A sid \in DOMAIN running_sessions :
        running_sessions[sid].status = "finalized"
        => \A v \in DOMAIN session_runs : session_runs[v].status # "approved"

====
